---- MODULE Spec2Model ----
(***************************************************************************)
(* Repo Timeline: the edge cache worker (worker/src/index.ts) and the      *)
(* upstream client (worker/src/api/github.ts).                            *)
(*                                                                         *)
(* The worker part models one repository.  Every await on the edge store   *)
(* (D1) or on the upstream API is one step; code between two awaits runs   *)
(* inside the step that ends at the second one.  Requests share nothing    *)
(* but the store, so these are the only points where they interleave.      *)
(***************************************************************************)
EXTENDS Integers, Sequences, FiniteSets, TLC

\* ------------------------------------------------------------------ bounds
MaxPR == 2          \* pull requests the upstream repository can hold
MaxReq == 2         \* requests handled by the worker (they may overlap)
MaxFaults == 1      \* store / upstream failures injected in one behaviour
MaxCalls == 3       \* calls of IndexedDBService followed in one behaviour
FewCalls == 2       \* the same, where every interleaving is explored further
MaxUpdates == 2     \* calls of updateFromPRFiles on one tracker
MaxTokenChars == 4  \* characters of env.GITHUB_TOKENS
MaxRotations == 4   \* calls of getNextToken on one rotator
MaxLog == 3         \* commits in the list handed to usePlaybackTimer

\* ------------------------------------------------------- program constants
PerPage == 100              \* index.ts:271
StaleAfterSec == 3600       \* index.ts:101
CACHE_VERSION == 2                      \* part_002:13
UpdateInterval == 100                   \* usePlaybackTimer.ts:50
ANIMATION_SETTLE_TIME == 3              \* fileStateTracker.ts:201
CACHE_EXPIRY_MS == 24 * 60 * 60 * 1000  \* part_002:14

PRNums == 1..MaxPR
Reqs == 1..MaxReq

\* Instants of the wall clock (Date.now(), milliseconds) the model visits.
Instants == {0, 3600000, 3600500}

NULL == "NULL"
NoRow == [id |-> 0, last_updated |-> 0, last_pr_number |-> 0]
NoResp == [status |-> 0, cache |-> "NONE", body |-> << >>, error |-> ""]

Min(a, b) == IF a < b THEN a ELSE b
Max(a, b) == IF a > b THEN a ELSE b

RECURSIVE SeqMax(_)
\* Math.max(...xs)
SeqMax(xs) == IF Len(xs) = 1 THEN xs[1] ELSE Max(xs[1], SeqMax(Tail(xs)))

\* Math.floor(Date.now() / 1000)
NowSec(ms) == ms \div 1000

VARIABLES
    now,        \* Date.now(), in milliseconds
    upstream,   \* upstream[n]: state and merge time of pull request n
    dbRepo,     \* the repos row of the repository, or NoRow
    dbPRs,      \* rows of pull_requests: pr_number -> merged_at
    dbFiles,    \* rows of pr_files, per pull request, in insertion order
    req,        \* req[r]: the handler of request r and the sync it runs
    faults,     \* failures injected so far
    commits,    \* batches committed so far
    oc,         \* one call of fetchOldestCommits (api/github.ts)
    fm,         \* one call of fetchMergedPRs (index.ts or api/github.ts)
    hook,       \* RepoTimeline: its state and its calls of loadCommits
    idb,        \* IndexedDBService: the object store and its transactions
    fileState,  \* FileStateTracker: the Map of paths to sizes, and its last update
    snapshot,   \* the edges built for the tracked files
    tokenRotator, \* one TokenRotator and its calls of getNextToken
    playback    \* usePlaybackTimer: the props, the time and lastCommitIndexRef

vars == <<now, upstream, dbRepo, dbPRs, dbFiles, req, faults, commits, oc, fm, hook,
         idb, fileState, snapshot, tokenRotator, playback>>

\* RepoTimeline is not rendered.
Unrendered == [mounted |-> FALSE]

\* The IndexedDB database "github-timeline" is not opened.
Unopened == [open |-> FALSE]

\* No FileStateTracker is constructed, no snapshot is built.
Untracked == [tracking |-> FALSE]
Unbuilt == [built |-> FALSE]
NoRotator == [built |-> FALSE]
NoPlayback == [mounted |-> FALSE]

\* --------------------------------------------------------------- upstream
File(fn, st, add, del, prev) ==
    [filename |-> fn, status |-> st, additions |-> add, deletions |-> del,
     previous_filename |-> prev]

\* The files the upstream reports for pull request n (fixed test data).
UpFiles(n) ==
    CASE n = 1 -> << File("a.ts", "added", 5, 0, NULL) >>
      [] n = 2 -> << File("a.ts", "modified", 2, 1, NULL),
                     File("c.ts", "renamed", 0, 0, "b.ts") >>
      [] OTHER -> << File("d.ts", "added", 1, 0, NULL) >>

RECURSIVE ClosedFrom(_, _)
ClosedFrom(up, n) ==
    IF n > MaxPR THEN << >>
    ELSE (IF up[n].state = "open" THEN << >>
          ELSE << [number |-> n, merged_at |-> up[n].merged_at] >>)
         \o ClosedFrom(up, n + 1)

\* GET /pulls?state=closed&sort=created&direction=asc: the closed pull
\* requests in creation (number) order; merged_at is NULL when not merged.
ClosedList(up) == ClosedFrom(up, 1)

\* per_page=PerPage & page=p of a list
PageOf(list, p) ==
    SubSeq(list, (p - 1) * PerPage + 1, Min(p * PerPage, Len(list)))

\* The statuses a request to the upstream is answered with.
Statuses == {200, 403, 404, 429, 500}

\* new Error(message): the kind of the message and the status it quotes
\* (only `GitHub API error: ${status}` quotes one).
UpstreamError(kind, status) == [kind |-> kind, status |-> status]
NoError == UpstreamError("none", 0)

\* throw new Error(`GitHub API error: ${response.status}`)
GenericError(status) == UpstreamError("generic", status)

\* The error of a request that maps 404 and 403 (github.ts:202-210, 61-73,
\* 513-521)
MappedError(status) ==
    CASE status = 404 -> UpstreamError("not found", 0)
      [] status = 403 -> UpstreamError("rate limit", 0)
      [] OTHER -> GenericError(status)

\* ------------------------------------------------ getCachedData (D1 read)
\* JSON text is modelled as a sequence of tokens: braces, commas and
\* "key":value members.  A comma inside the text is a comma token.
Tok(t, k, v) == [t |-> t, k |-> k, v |-> v]
LBRACE == Tok("{", "", "")
RBRACE == Tok("}", "", "")
COMMA == Tok(",", "", "")

\* json_object('filename', f.filename, 'status', f.status, ...)
JsonObject(f) ==
    << LBRACE,
       Tok("member", "filename", f.filename), COMMA,
       Tok("member", "status", f.status), COMMA,
       Tok("member", "additions", f.additions), COMMA,
       Tok("member", "deletions", f.deletions), COMMA,
       Tok("member", "previous_filename", f.previous_filename),
       RBRACE >>

\* The row a LEFT JOIN yields for a pull request without pr_files rows.
NullFile == File(NULL, NULL, NULL, NULL, NULL)

\* pull_requests LEFT JOIN pr_files: the joined f.* rows of one pull request
JoinedFiles(rows) == IF rows = << >> THEN << NullFile >> ELSE rows

RECURSIVE GroupConcat(_)
\* GROUP_CONCAT(x): the values joined by ','
GroupConcat(texts) ==
    IF Len(texts) = 1 THEN texts[1]
    ELSE texts[1] \o << COMMA >> \o GroupConcat(Tail(texts))

RECURSIVE SplitComma(_, _)
\* text.split(','): cur is the piece being read
SplitComma(text, cur) ==
    IF text = << >> THEN << cur >>
    ELSE IF text[1].t = "," THEN << cur >> \o SplitComma(Tail(text), << >>)
    ELSE SplitComma(Tail(text), Append(cur, text[1]))

\* Whether JSON.parse accepts the piece: a complete object, that is
\* '{' member (',' member)* '}'.  Anything else is a SyntaxError.
JsonParses(piece) ==
    /\ Len(piece) >= 3
    /\ piece[1].t = "{"
    /\ piece[Len(piece)].t = "}"
    /\ \A i \in 2..(Len(piece) - 1) :
          piece[i].t = (IF i % 2 = 0 THEN "member" ELSE ",")

\* JSON.parse(piece) of a piece JsonParses accepts
JsonParse(piece) ==
    LET val(k) == (CHOOSE i \in 1..Len(piece) :
                      piece[i].t = "member" /\ piece[i].k = k)
        has(k) == \E i \in 1..Len(piece) : piece[i].t = "member" /\ piece[i].k = k
        get(k) == IF has(k) THEN piece[val(k)].v ELSE NULL
    IN  File(get("filename"), get("status"), get("additions"),
             get("deletions"), get("previous_filename"))

\* The files column of one result row of the query of getCachedData.
FilesColumn(rows) ==
    GroupConcat([i \in 1..Len(JoinedFiles(rows)) |-> JsonObject(JoinedFiles(rows)[i])])

\* pr.files.split(',') of one result row
FilePieces(rows) == SplitComma(FilesColumn(rows), << >>)

\* The transform of getCachedData throws when JSON.parse rejects a piece.
TransformThrows(prs, files) ==
    \E n \in DOMAIN prs : \E i \in 1..Len(FilePieces(files[n])) :
        ~JsonParses(FilePieces(files[n])[i])

\* pr.files.split(',').map(f => JSON.parse(f))
ParsedFiles(rows) ==
    [i \in 1..Len(FilePieces(rows)) |-> JsonParse(FilePieces(rows)[i])]

\* A change record as the handler returns it
Change(n, at, files) == [number |-> n, merged_at |-> at, files |-> files]

RECURSIVE OrderByMergedAt(_, _)
\* ORDER BY pr.merged_at ASC over the pull requests in todo (ties: by row id,
\* which follows pr_number here)
OrderByMergedAt(prs, todo) ==
    IF todo = {} THEN << >>
    ELSE LET n == CHOOSE m \in todo :
                    \A k \in todo : \/ prs[m] < prs[k]
                                    \/ (prs[m] = prs[k] /\ m <= k)
         IN  << n >> \o OrderByMergedAt(prs, todo \ {n})

\* transformedPRs of getCachedData, when the transform does not throw
TransformedPRs(prs, files) ==
    LET order == OrderByMergedAt(prs, DOMAIN prs)
    IN  [i \in 1..Len(order) |->
            Change(order[i], prs[order[i]], ParsedFiles(files[order[i]]))]

\* ----------------------------------------------------------- TokenRotator
\* env.GITHUB_TOKENS, split on ',' (a pool of two credentials)
Tokens == << "tokA", "tokB" >>

\* new TokenRotator(env.GITHUB_TOKENS)
NewRotator == [tokens |-> Tokens, currentIndex |-> 0]

\* Mutant of GetNextToken: the cursor is not advanced.
GetFirstToken(rot) == [token |-> rot.tokens[rot.currentIndex + 1], rot |-> rot]

\* getNextToken(): the token handed out and the rotator afterwards
GetNextToken(rot) ==
    [token |-> rot.tokens[rot.currentIndex + 1],
     rot |-> [rot EXCEPT !.currentIndex = (rot.currentIndex + 1) % Len(rot.tokens)]]

\* ------------------------------------------------------------ the D1 store
Store(repo, prs, files) == [repo |-> repo, prs |-> prs, files |-> files]

NoFile == File("", "", 0, 0, "")
Stmt(op, num, at, lu, lpn, file) ==
    [op |-> op, num |-> num, at |-> at, lu |-> lu, lpn |-> lpn, file |-> file]

\* UPDATE repos SET last_updated = ?, last_pr_number = ? WHERE full_name = ?
RepoUpdate(lu, lpn) == Stmt("repoUpdate", 0, 0, lu, lpn, NoFile)
\* INSERT INTO repos ... ON CONFLICT(full_name) DO UPDATE SET ...
RepoUpsert(lu, lpn) == Stmt("repoUpsert", 0, 0, lu, lpn, NoFile)
\* INSERT INTO pull_requests ... ON CONFLICT(repo_id, pr_number) DO NOTHING
PrInsert(num, at) == Stmt("prInsert", num, at, 0, 0, NoFile)
\* INSERT INTO pr_files ... ON CONFLICT DO NOTHING, bound to prRow.id
FileInsert(num, file) == Stmt("fileInsert", num, 0, 0, 0, file)

\* file.additions || 0, file.deletions || 0, file.previous_filename || null
FileRow(f) == File(f.filename, f.status, f.additions, f.deletions, f.previous_filename)

\* Whether pr_files has a uniqueness constraint besides its row id, for
\* ON CONFLICT DO NOTHING to act on: file diffs carry no key of their own.
PrFilesUnique == FALSE

\* One statement of a batch applied to the store.
ApplyStmt(db, st) ==
    CASE st.op = "repoUpdate" ->
            IF db.repo = NoRow THEN db
            ELSE [db EXCEPT !.repo.last_updated = st.lu,
                            !.repo.last_pr_number = st.lpn]
      [] st.op = "repoUpsert" ->
            IF db.repo = NoRow
            THEN [db EXCEPT !.repo = [id |-> 1, last_updated |-> st.lu,
                                      last_pr_number |-> st.lpn]]
            ELSE [db EXCEPT !.repo.last_updated = st.lu,
                            !.repo.last_pr_number = st.lpn]
      [] st.op = "prInsert" ->
            IF st.num \in DOMAIN db.prs THEN db
            ELSE [db EXCEPT !.prs = [n \in (DOMAIN db.prs) \cup {st.num} |->
                                        IF n = st.num THEN st.at ELSE db.prs[n]]]
      [] OTHER ->
            IF PrFilesUnique /\ \E i \in 1..Len(db.files[st.num]) :
                            db.files[st.num][i].filename = st.file.filename
            THEN db
            ELSE [db EXCEPT !.files[st.num] = Append(@, st.file)]

RECURSIVE ApplyBatch(_, _)
\* db.batch(batch): the statements in order, as one transaction
ApplyBatch(db, batch) ==
    IF batch = << >> THEN db
    ELSE ApplyBatch(ApplyStmt(db, batch[1]), Tail(batch))

\* ------------------------------------------------------- the fetch handler
Resp(status, cache, body, error) ==
    [status |-> status, cache |-> cache, body |-> body, error |-> error]

IdleReq ==
    [pc |-> "start", kind |-> "none", resp |-> NoResp, token |-> "",
     since |-> 0, page |-> 1, rawLen |-> 0, queue |-> << >>, allPRs |-> << >>,
     storeNow |-> 0, idx |-> 1, batch |-> << >>, logged |-> FALSE,
     \* history: what the lookup saw, when the cycle started, how it ended
     seenRepo |-> NoRow, seenPRs |-> << >>, seenFiles |-> << >>, ageMs |-> 0,
     startMs |-> 0, startSeq |-> 0, outcome |-> "none", began |-> 0,
     committed |-> 0, after |-> Store(NoRow, << >>, << >>)]

CanFail == faults < MaxFaults

\* The catch of the handler (index.ts:127-135): a 500 response.
Caught(rq, msg) ==
    [rq EXCEPT !.pc = "end", !.resp = Resp(500, "NONE", << >>, msg),
               !.outcome = IF rq.kind = "none" THEN "none" ELSE "failed"]

\* The catch of updateRepoData (index.ts:255-257): the error is logged.
Logged(rq) == [rq EXCEPT !.pc = "end", !.logged = TRUE, !.outcome = "failed"]

\* An error thrown inside the sync cycle of rq.
Thrown(rq, msg) == IF rq.kind = "update" THEN Logged(rq) ELSE Caught(rq, msg)

\* No cache: fetchAndCacheRepo(env.DB, tokenRotator.getNextToken(), ...),
\* which issues the first list request of fetchMergedPRs.
Miss(rq) ==
    [rq EXCEPT !.pc = "fetchPage", !.kind = "full",
               !.token = GetNextToken(NewRotator).token,
               !.since = 0, !.page = 1, !.startMs = now, !.startSeq = commits]

\* cacheAge > 3600, with cacheAge = Date.now() / 1000 - cached.lastUpdated
IsStale(ms, lastUpdated) == ms > (lastUpdated + StaleAfterSec) * 1000

\* The handler once getCachedData returned cached (index.ts:96-114): the
\* response is built in the same turn; updateRepoData runs detached.
Hit(rq, repo, prs, files) ==
    LET body == TransformedPRs(prs, files)
        hit == Resp(200, "HIT", body, "")
    IN  IF IsStale(now, repo.last_updated)
        THEN [rq EXCEPT !.resp = hit, !.pc = "fetchPage", !.kind = "update",
                        !.token = GetNextToken(NewRotator).token,
                        !.since = repo.last_pr_number + 1, !.page = 1,
                        !.startMs = now, !.startSeq = commits]
        ELSE [rq EXCEPT !.resp = hit, !.pc = "end"]

\* getCachedData, first query: SELECT id, last_updated, last_pr_number
ReqSelectRepo(r) ==
    /\ req[r].pc = "start"
    /\ \/ /\ CanFail
          /\ faults' = faults + 1
          /\ req' = [req EXCEPT ![r] = Caught(@, "D1 error")]
       \/ /\ faults' = faults
          /\ req' = [req EXCEPT ![r] =
                IF dbRepo = NoRow THEN Miss(@)
                ELSE [@ EXCEPT !.pc = "selectPRs", !.seenRepo = dbRepo]]
    /\ UNCHANGED <<now, upstream, dbRepo, dbPRs, dbFiles, commits, oc, fm, hook, idb, fileState, snapshot, tokenRotator, playback>>

\* getCachedData, second query and transform, then the handler's branch
ReqSelectPRs(r) ==
    /\ req[r].pc = "selectPRs"
    /\ \/ /\ CanFail
          /\ faults' = faults + 1
          /\ req' = [req EXCEPT ![r] = Caught(@, "D1 error")]
       \/ /\ faults' = faults
          /\ LET seen == [req[r] EXCEPT !.seenPRs = dbPRs, !.seenFiles = dbFiles,
                             !.ageMs = now - req[r].seenRepo.last_updated * 1000]
             IN  req' = [req EXCEPT ![r] =
                   IF DOMAIN dbPRs = {} THEN Miss(seen)
                   ELSE IF TransformThrows(dbPRs, dbFiles)
                        THEN Caught(seen, "SyntaxError")
                        ELSE Hit(seen, req[r].seenRepo, dbPRs, dbFiles)]
    /\ UNCHANGED <<now, upstream, dbRepo, dbPRs, dbFiles, commits, oc, fm, hook, idb, fileState, snapshot, tokenRotator, playback>>

\* ------------------------------------------------------- one sync cycle
\* pr.merged_at is truthy: the pull request was merged (-1 models null)
IsMerged(pr) == pr.merged_at # -1

\* new Error(...) of a list request that is not ok (index.ts:284-292)
ListError(status) ==
    CASE status = 404 -> "not found"
      [] status = 403 -> "rate limit exceeded"
      [] OTHER -> "GitHub API error"

\* storeRepoData up to its first await: now, and the repos statement
StoreStart(rq, all, isUpdate) ==
    LET nums == [i \in 1..Len(all) |-> all[i].number]
        lu == NowSec(now)
    IN  [rq EXCEPT !.pc = "storeRepo", !.allPRs = all, !.storeNow = lu,
                   !.idx = 1, !.began = commits,
                   !.batch = << IF isUpdate
                                THEN RepoUpdate(lu, SeqMax(nums))
                                ELSE RepoUpsert(lu, IF Len(all) > 0
                                                    THEN SeqMax(nums) ELSE 0) >>]

\* fetchMergedPRs returned all: the rest of fetchAndCacheRepo
\* (index.ts:219-226) or of updateRepoData (index.ts:245-254)
FetchDone(rq, all) ==
    IF rq.kind = "full"
    THEN IF Len(all) = 0
         THEN [rq EXCEPT !.pc = "end", !.allPRs = all, !.outcome = "completed",
                         !.after = Store(dbRepo, dbPRs, dbFiles),
                         !.resp = Resp(200, "MISS", << >>, "")]
         ELSE StoreStart(rq, all, FALSE)
    ELSE IF Len(all) > 0
         THEN StoreStart(rq, all, TRUE)
         ELSE [rq EXCEPT !.pc = "touch", !.allPRs = all, !.storeNow = NowSec(now)]

\* The end of one turn of the page loop (index.ts:331-336)
AfterPage(rq) ==
    IF rq.rawLen < PerPage THEN FetchDone(rq, rq.allPRs)
    ELSE [rq EXCEPT !.page = @ + 1, !.pc = "fetchPage"]

\* One list request of fetchMergedPRs and its filters (index.ts:273-306)
TaskFetchPage(r) ==
    /\ req[r].pc = "fetchPage"
    /\ \/ /\ CanFail
          /\ faults' = faults + 1
          /\ \E status \in {403, 404, 500} :
                req' = [req EXCEPT ![r] = Thrown(@, ListError(status))]
       \/ /\ faults' = faults
          /\ LET prs == PageOf(ClosedList(upstream), req[r].page)
                 mergedPRs == SelectSeq(prs, IsMerged)
                 IsNew(pr) == pr.number >= req[r].since
                 newPRs == IF req[r].since # 0 THEN SelectSeq(mergedPRs, IsNew)
                           ELSE mergedPRs
                 rq == [req[r] EXCEPT !.rawLen = Len(prs)]
             IN  req' = [req EXCEPT ![r] =
                    IF Len(prs) = 0 THEN FetchDone(rq, rq.allPRs)
                    ELSE IF Len(newPRs) = 0 THEN AfterPage(rq)
                    ELSE [rq EXCEPT !.queue = newPRs, !.pc = "fetchFiles"]]
    /\ UNCHANGED <<now, upstream, dbRepo, dbPRs, dbFiles, commits, oc, fm, hook, idb, fileState, snapshot, tokenRotator, playback>>

\* One files request of fetchMergedPRs (index.ts:309-329)
TaskFetchFiles(r) ==
    /\ req[r].pc = "fetchFiles"
    /\ LET pr == req[r].queue[1]
           Next1(files) ==
              LET rq == [req[r] EXCEPT
                            !.allPRs = Append(@, Change(pr.number, pr.merged_at, files)),
                            !.queue = Tail(@)]
              IN  IF rq.queue = << >> THEN AfterPage(rq) ELSE rq
       IN  \/ /\ CanFail
              /\ faults' = faults + 1
              /\ req' = [req EXCEPT ![r] = Next1(<< >>)]
           \/ /\ faults' = faults
              /\ req' = [req EXCEPT ![r] = Next1(UpFiles(pr.number))]
    /\ UNCHANGED <<now, upstream, dbRepo, dbPRs, dbFiles, commits, oc, fm, hook, idb, fileState, snapshot, tokenRotator, playback>>

\* storeRepoData: SELECT id FROM repos (index.ts:385-392)
TaskStoreRepo(r) ==
    /\ req[r].pc = "storeRepo"
    /\ \/ /\ CanFail
          /\ faults' = faults + 1
          /\ req' = [req EXCEPT ![r] = Thrown(@, "D1 error")]
       \/ /\ faults' = faults
          /\ req' = [req EXCEPT ![r] =
                IF dbRepo = NoRow THEN Thrown(@, "Failed to get repo ID")
                ELSE [@ EXCEPT !.pc = "storePR"]]
    /\ UNCHANGED <<now, upstream, dbRepo, dbPRs, dbFiles, commits, oc, fm, hook, idb, fileState, snapshot, tokenRotator, playback>>

RECURSIVE FileInserts(_, _)
\* the pr_files statements of one pull request (index.ts:417-435)
FileInserts(num, files) ==
    IF files = << >> THEN << >>
    ELSE << FileInsert(num, FileRow(files[1])) >> \o FileInserts(num, Tail(files))

\* storeRepoData, one turn of the loop over prs (index.ts:395-436): the
\* INSERT is queued, then SELECT id FROM pull_requests is awaited
TaskStorePR(r) ==
    /\ req[r].pc = "storePR"
    /\ \/ /\ CanFail
          /\ faults' = faults + 1
          /\ req' = [req EXCEPT ![r] = Thrown(@, "D1 error")]
       \/ /\ faults' = faults
          /\ LET pr == req[r].allPRs[req[r].idx]
                 prRow == pr.number \in DOMAIN dbPRs
                 stmts == << PrInsert(pr.number, pr.merged_at) >> \o
                          (IF prRow THEN FileInserts(pr.number, pr.files) ELSE << >>)
             IN  req' = [req EXCEPT ![r] =
                    [@ EXCEPT !.batch = @ \o stmts, !.idx = @ + 1,
                              !.pc = IF req[r].idx = Len(req[r].allPRs)
                                     THEN "batch" ELSE "storePR"]]
    /\ UNCHANGED <<now, upstream, dbRepo, dbPRs, dbFiles, commits, oc, fm, hook, idb, fileState, snapshot, tokenRotator, playback>>

\* The write of a cycle to the store.  With pull requests to store:
\* await db.batch(batch) of storeRepoData (index.ts:438-440), all or nothing.
\* An update cycle without new pull requests: UPDATE repos SET last_updated
\* (index.ts:248-254).
TaskWrite(r) ==
    /\ req[r].pc \in {"batch", "touch"}
    /\ \/ /\ CanFail
          /\ faults' = faults + 1
          /\ req' = [req EXCEPT ![r] = Thrown(@, "D1 error")]
          /\ UNCHANGED <<dbRepo, dbPRs, dbFiles, commits>>
       \/ /\ faults' = faults
          /\ LET stmts == IF req[r].pc = "batch" THEN req[r].batch
                          ELSE << RepoUpdate(req[r].storeNow,
                                             dbRepo.last_pr_number) >>
                 db == ApplyBatch(Store(dbRepo, dbPRs, dbFiles), stmts)
             IN  /\ dbRepo' = db.repo
                 /\ dbPRs' = db.prs
                 /\ dbFiles' = db.files
                 /\ commits' = commits + 1
                 /\ req' = [req EXCEPT ![r] =
                       [@ EXCEPT !.pc = "end", !.outcome = "completed",
                                 !.committed = commits + 1,
                                 !.after = db,
                                 !.resp = IF req[r].kind = "full"
                                          THEN Resp(200, "MISS", req[r].allPRs, "")
                                          ELSE @]]
    /\ UNCHANGED <<now, upstream, oc, fm, hook, idb, fileState, snapshot, tokenRotator, playback>>

\* ---------------------------------------------------------- environment
\* Time passes.
Tick ==
    /\ \E t \in Instants : t > now /\ now' = t
    /\ UNCHANGED <<upstream, dbRepo, dbPRs, dbFiles, req, faults, commits, oc, fm, hook, idb, fileState, snapshot, tokenRotator, playback>>

\* An open pull request is merged, or closed without a merge.
UpstreamClose(n) ==
    /\ upstream[n].state = "open"
    /\ \/ upstream' = [upstream EXCEPT ![n] =
                          [state |-> "merged", merged_at |-> NowSec(now)]]
       \/ upstream' = [upstream EXCEPT ![n] =
                          [state |-> "closed", merged_at |-> -1]]
    /\ UNCHANGED <<now, dbRepo, dbPRs, dbFiles, req, faults, commits, oc, fm, hook, idb, fileState, snapshot, tokenRotator, playback>>

\* ------------------------- fetchMergedPRs (index.ts and api/github.ts)
\* One call of fetchMergedPRs against an upstream that holds the closed
\* pull requests 1..T; pull request n is merged when every divides n
\* (every = 0: none is merged); the files request of the pull requests in
\* broken is answered with an error status.
MaxClosed == 1100
DenseMax == 250
DefaultMaxPages == 10
PrLimit == 45
SubrequestLimit == 50

ClosedCounts == {0, 1, 99, 100, 101, DenseMax, 1000, MaxClosed}
MergeEvery == {0, 1, 2, 23, 50}
Sinces == {0, 2, 101}
MaxPagesChoices == {1, 2, DefaultMaxPages}
BrokenSets == {{}, {1}, {2, 4}, {100}}

IsMergedNumber(every, n) == every # 0 /\ n % every = 0

\* The closed pull requests of the upstream in creation order.
ClosedPRs(T, every) ==
    [n \in 1..T |-> [number |-> n,
                     merged_at |-> IF IsMergedNumber(every, n) THEN n ELSE -1]]

\* The slice left out: every new pull request of the page is fetched.
AllNewPRs(allPRs, newPRs) == newPRs

\* newPRs.slice(0, prLimit - allPRs.length) when the limit would be passed
\* (github.ts:537-542)
PrsToFetch(allPRs, newPRs) ==
    IF Len(allPRs) + Len(newPRs) > PrLimit
    THEN SubSeq(newPRs, 1, Min(Len(newPRs), Max(0, PrLimit - Len(allPRs))))
    ELSE newPRs

IdleFetch ==
    [pc |-> "idle", variant |-> "index", T |-> 0, every |-> 0, since |-> 0,
     maxPages |-> 0, broken |-> {}, page |-> 1, rawLen |-> 0,
     queue |-> << >>, allPRs |-> << >>, listed |-> << >>,
     error |-> NoError]

\* while (page <= maxPages) (github.ts:502); while (true) (index.ts:273)
LoopHead(call) ==
    IF call.variant = "api" /\ call.page > call.maxPages
    THEN [call EXCEPT !.pc = "done"]
    ELSE [call EXCEPT !.pc = "list"]

\* The end of one turn of the page loop (github.ts:564-575, index.ts:331-336)
EndOfTurn(call) ==
    IF call.variant = "api" /\ Len(call.allPRs) >= PrLimit
    THEN [call EXCEPT !.pc = "done"]
    ELSE IF call.rawLen < PerPage THEN [call EXCEPT !.pc = "done"]
    ELSE LoopHead([call EXCEPT !.page = @ + 1])

\* One list request and its filters (github.ts:503-542, index.ts:274-306)
MergedListPage ==
    /\ fm.pc = "list"
    /\ \E status \in Statuses :
          LET prs == PageOf(ClosedPRs(fm.T, fm.every), fm.page)
              mergedPRs == SelectSeq(prs, IsMerged)
              IsNew(pr) == pr.number >= fm.since
              newPRs == IF fm.since # 0 THEN SelectSeq(mergedPRs, IsNew)
                        ELSE mergedPRs
              prsToFetch == IF fm.variant = "api"
                            THEN PrsToFetch(fm.allPRs, newPRs) ELSE newPRs
              call == [fm EXCEPT !.rawLen = Len(prs),
                                 !.listed = Append(@, [page |-> fm.page,
                                                       len |-> Len(prs)])]
          IN  fm' = IF status # 200
                    THEN [fm EXCEPT !.pc = "failed",
                                    !.error = MappedError(status),
                                    !.listed = Append(@, [page |-> fm.page,
                                                          len |-> -1])]
                    ELSE IF Len(prs) = 0 THEN [call EXCEPT !.pc = "done"]
                    ELSE IF Len(prsToFetch) = 0 THEN EndOfTurn(call)
                    ELSE [call EXCEPT !.pc = "files", !.queue = prsToFetch]
    /\ UNCHANGED <<now, upstream, dbRepo, dbPRs, dbFiles, req, faults, commits, oc, hook, idb, fileState, snapshot, tokenRotator, playback>>

\* A pull request whose files request failed is left out of the result.
SkipFailed(allPRs, pr, ok) ==
    IF ok THEN Append(allPRs, Change(pr.number, pr.merged_at, UpFiles(pr.number)))
    ELSE allPRs

\* allPRs.push({ ...pr, files }) or allPRs.push({ ...pr, files: [] })
\* (github.ts:555-561, index.ts:319-325)
PushWithFiles(allPRs, pr, ok) ==
    Append(allPRs, Change(pr.number, pr.merged_at,
                          IF ok THEN UpFiles(pr.number) ELSE << >>))

\* One files request (github.ts:545-562, index.ts:309-329)
MergedFiles ==
    /\ fm.pc = "files"
    /\ LET pr == Head(fm.queue)
           call == [fm EXCEPT
                      !.allPRs = PushWithFiles(@, pr, pr.number \notin fm.broken),
                      !.queue = Tail(@)]
       IN  fm' = IF call.queue = << >> THEN EndOfTurn(call) ELSE call
    /\ UNCHANGED <<now, upstream, dbRepo, dbPRs, dbFiles, req, faults, commits, oc, hook, idb, fileState, snapshot, tokenRotator, playback>>

NextFetch ==
    \/ MergedListPage
    \/ MergedFiles

\* ------------------------------------- fetchOldestCommits (api/github.ts)
\* The branch holds T commits; commit i is the i-th oldest.  The list API
\* returns them newest first.
MaxCommits == 205
\* values of maxCommitsToReturn tried
Limits == {1, 50, 100, 101}

\* Mutant of CommitPage: every page holds the oldest commits of the branch.
OldestCommitsPage(T, size, p) ==
    [j \in 1..Min(size, T) |-> Min(size, T) - (j - 1)]

\* GET /commits?per_page=size&page=p (the API reads page 0 as page 1)
CommitPage(T, size, p) ==
    LET first == T - (Max(p, 1) - 1) * size
        n == Max(0, Min(size, first))
    IN  [j \in 1..n |-> first - (j - 1)]

\* The quotient rounded down instead of up.
FloorDiv(count, per) == count \div per

\* Math.ceil(count / perPage)
CeilDiv(count, per) == (count + per - 1) \div per

\* [...commits].reverse()
Reverse(xs) == [i \in 1..Len(xs) |-> xs[Len(xs) + 1 - i]]

\* The slice without the reverse: the newest commits of the page first.
NewestFirst(lastPageCommits, limit) ==
    SubSeq(lastPageCommits, 1, Min(limit, Len(lastPageCommits)))

\* [...commits].reverse().slice(0, maxCommitsToReturn)
OldestFirst(lastPageCommits, limit) ==
    SubSeq(Reverse(lastPageCommits), 1, Min(limit, Len(lastPageCommits)))

\* The Link header of a list response: none, one without rel="last", or one
\* whose rel="last" names a page.
Link(kind, page) == [kind |-> kind, page |-> page]
NoLink == Link("none", 0)

\* The Link header an accurate upstream sends for per_page=size, page 1.
TrueLink(T, size) ==
    IF T <= size THEN NoLink ELSE Link("last", CeilDiv(T, size))

\* Headers the upstream may send for the HEAD request: the accurate one, a
\* last page that is too high (the pagination quirk), or no last page.
HeadLinks(T) ==
    {TrueLink(T, PerPage), Link("last", Max(1, CeilDiv(T, PerPage)) + 1),
     Link("last", Max(1, T)), Link("nolast", 0), NoLink}

IdleCall ==
    [pc |-> "idle", T |-> 0, limit |-> 0, link |-> NoLink, probeExtra |-> 0,
     lastPage |-> 0, count |-> 0, result |-> << >>, error |-> NoError,
     status |-> 200,
     reqs |-> << >>]

Request(method, per, page) == [method |-> method, per |-> per, page |-> page]

\* throw new Error(...): the call rejects
Rejected(call, r, status, msg) ==
    [call EXCEPT !.pc = "failed", !.error = msg, !.status = status,
                 !.reqs = Append(@, r)]

\* return result
Returned(call, r, result) ==
    [call EXCEPT !.pc = "done", !.result = result, !.reqs = Append(@, r)]

\* Step 1 and 2: the HEAD request and its Link header (github.ts:190-262)
OldestHead ==
    /\ oc.pc = "head"
    /\ \E status \in Statuses :
          LET r == Request("HEAD", PerPage, 1)
          IN  oc' = IF status # 200 THEN Rejected(oc, r, status, MappedError(status))
                    ELSE IF oc.link.kind = "last"
                         THEN [oc EXCEPT !.pc = "last", !.lastPage = oc.link.page,
                                         !.reqs = Append(@, r)]
                         ELSE [oc EXCEPT !.pc = "single", !.reqs = Append(@, r)]
    /\ UNCHANGED <<now, upstream, dbRepo, dbPRs, dbFiles, req, faults, commits, fm, hook, idb, fileState, snapshot, tokenRotator, playback>>

\* No Link header, or none with rel="last": page 1 is fetched and returned
\* (github.ts:215-235, 241-260)
OldestSinglePage ==
    /\ oc.pc = "single"
    /\ \E status \in Statuses :
          LET r == Request("GET", PerPage, 1)
          IN  oc' = IF status # 200 THEN Rejected(oc, r, status, GenericError(status))
                    ELSE Returned(oc, r,
                             OldestFirst(CommitPage(oc.T, PerPage, 1), oc.limit))
    /\ UNCHANGED <<now, upstream, dbRepo, dbPRs, dbFiles, req, faults, commits, fm, hook, idb, fileState, snapshot, tokenRotator, playback>>

\* Step 3: the reported last page (github.ts:265-285), then step 4
\* (github.ts:329-337) unless the page is empty
OldestLastPage ==
    /\ oc.pc = "last"
    /\ \E status \in Statuses :
          LET r == Request("GET", PerPage, oc.lastPage)
              lastPageCommits == CommitPage(oc.T, PerPage, oc.lastPage)
          IN  oc' = IF status # 200 THEN Rejected(oc, r, status, GenericError(status))
                    ELSE IF Len(lastPageCommits) = 0
                         THEN [oc EXCEPT !.pc = "probe", !.reqs = Append(@, r)]
                         ELSE Returned(oc, r, OldestFirst(lastPageCommits, oc.limit))
    /\ UNCHANGED <<now, upstream, dbRepo, dbPRs, dbFiles, req, faults, commits, fm, hook, idb, fileState, snapshot, tokenRotator, playback>>

\* fetchCommitCount: the count read from a per_page=1 response
\* (github.ts:75-96); the upstream over-reports by probeExtra
ProbedCount(T, extra) ==
    LET link == TrueLink(T + extra, 1)
    IN  IF link.kind = "last" THEN link.page
        ELSE Len(CommitPage(T, 1, 1))

\* The probe and the recomputed last page (github.ts:285-300)
OldestProbe ==
    /\ oc.pc = "probe"
    /\ \E status \in Statuses :
          LET r == Request("GET", 1, 1)
              actualCount == ProbedCount(oc.T, oc.probeExtra)
              actualLastPage == CeilDiv(actualCount, PerPage)
          IN  oc' = IF status # 200 THEN Rejected(oc, r, status, MappedError(status))
                    ELSE IF actualLastPage = oc.lastPage
                         THEN Returned([oc EXCEPT !.count = actualCount], r, << >>)
                         ELSE [oc EXCEPT !.pc = "retry", !.count = actualCount,
                                         !.lastPage = actualLastPage,
                                         !.reqs = Append(@, r)]
    /\ UNCHANGED <<now, upstream, dbRepo, dbPRs, dbFiles, req, faults, commits, fm, hook, idb, fileState, snapshot, tokenRotator, playback>>

\* The recomputed last page is fetched (github.ts:302-337)
OldestRetry ==
    /\ oc.pc = "retry"
    /\ \E status \in Statuses :
          LET r == Request("GET", PerPage, oc.lastPage)
              lastPageCommits == CommitPage(oc.T, PerPage, oc.lastPage)
          IN  oc' = IF status # 200 THEN Rejected(oc, r, status, GenericError(status))
                    ELSE IF Len(lastPageCommits) = 0 THEN Returned(oc, r, << >>)
                    ELSE Returned(oc, r, OldestFirst(lastPageCommits, oc.limit))
    /\ UNCHANGED <<now, upstream, dbRepo, dbPRs, dbFiles, req, faults, commits, fm, hook, idb, fileState, snapshot, tokenRotator, playback>>

\* fetchOldestCommits(token, owner, repo, branch, limit) is called on a
\* branch of T commits.
InitOldest ==
    /\ hook = Unrendered
    /\ idb = Unopened
    /\ fileState = Untracked
    /\ snapshot = Unbuilt
    /\ tokenRotator = NoRotator
    /\ playback = NoPlayback
    /\ fm = IdleFetch
    /\ now = 0
    /\ faults = 0
    /\ commits = 0
    /\ req = [r \in Reqs |-> IdleReq]
    /\ dbRepo = NoRow
    /\ dbPRs = << >>
    /\ dbFiles = [n \in PRNums |-> << >>]
    /\ upstream = [n \in PRNums |-> [state |-> "open", merged_at |-> -1]]
    /\ \E T \in 0..MaxCommits, limit \in Limits, extra \in {0, PerPage} :
          \E link \in HeadLinks(T) :
             oc = [IdleCall EXCEPT !.pc = "head", !.T = T, !.limit = limit,
                                   !.link = link, !.probeExtra = extra]

NextOldest ==
    \/ OldestHead
    \/ OldestSinglePage
    \/ OldestLastPage
    \/ OldestProbe
    \/ OldestRetry

SpecOldest == InitOldest /\ [][NextOldest]_vars

\* fetchMergedPRs(token, owner, repo, since, maxPages) is called; the
\* variant of index.ts has no maxPages.
InitFetch ==
    /\ hook = Unrendered
    /\ idb = Unopened
    /\ fileState = Untracked
    /\ snapshot = Unbuilt
    /\ tokenRotator = NoRotator
    /\ playback = NoPlayback
    /\ oc = IdleCall
    /\ now = 0
    /\ faults = 0
    /\ commits = 0
    /\ req = [r \in Reqs |-> IdleReq]
    /\ dbRepo = NoRow
    /\ dbPRs = << >>
    /\ dbFiles = [n \in PRNums |-> << >>]
    /\ upstream = [n \in PRNums |-> [state |-> "open", merged_at |-> -1]]
    /\ \E variant \in {"index", "api"}, T \in ClosedCounts, every \in MergeEvery,
          since \in Sinces, maxPages \in MaxPagesChoices, broken \in BrokenSets :
          /\ T > DenseMax => every \in {0, 23, 50}
          /\ variant = "index" => maxPages = DefaultMaxPages
          /\ fm = LoopHead([IdleFetch EXCEPT !.variant = variant, !.T = T,
                               !.every = every, !.since = since,
                               !.maxPages = maxPages, !.broken = broken])

SpecFetch == InitFetch /\ [][NextFetch]_vars

\* Every step of the call that can be taken is taken.
FairFetch == SpecFetch /\ WF_vars(NextFetch)

\* ------------------------- RepoTimeline: loadCommits (load orchestrator)
\* The component state of RepoTimeline, the calls of loadCommits that have
\* not returned yet, and the GitService they await.
MaxLoads == 3
FewLoads == 2
MaxStream == 1

Keys == {"A", "B"}
FetchErrors == {"GitHub API rate limit exceeded", "API error"}
CacheError == "Cache error"

\* The commits the cache of GitService holds for a repository.
CachedCommits(key) ==
    << [repo |-> key, from |-> "cache", n |-> 1],
       [repo |-> key, from |-> "cache", n |-> 2] >>

\* The n-th commit an incremental load hands to its per-item callback.
FreshCommit(key, n) == [repo |-> key, from |-> "upstream", n |-> n]

NoLoad ==
    [pc |-> "none", key |-> "A", epoch |-> 0, exists |-> FALSE,
     force |-> FALSE, delivered |-> 0, err |-> NULL]

NoEvent == [kind |-> "none", load |-> 0]

\* useState(...) (lines 1332-1351), before any effect has run; budget is
\* the number of calls of loadCommits the run is followed for.
Mounted(key, budget) ==
    [mounted |-> TRUE, budget |-> budget, key |-> key, epoch |-> 1,
     effect |-> TRUE,
     commits |-> << >>, loading |-> TRUE, backgroundLoading |-> FALSE,
     error |-> NULL, fromCache |-> FALSE, rateLimitedCache |-> FALSE,
     loads |-> << >>, event |-> NoEvent]

\* A state setter called after the component has unmounted changes nothing:
\* only the calls of loadCommits move on.
Rendered(h, next) ==
    IF h.mounted THEN next
    ELSE [h EXCEPT !.loads = next.loads, !.event = next.event]

\* loadCommits(forceRefresh) up to its first await (lines 1392-1452)
LoadCommits(h, forceRefresh, exists, kind) ==
    LET hasCache == exists /\ ~forceRefresh
        load == [pc |-> IF hasCache THEN "cacheLoad" ELSE "incremental",
                 key |-> h.key, epoch |-> h.epoch, exists |-> exists,
                 force |-> forceRefresh, delivered |-> 0, err |-> NULL]
        started == [h EXCEPT !.loads = Append(@, load), !.effect = FALSE,
                             !.event = [kind |-> kind, load |-> Len(h.loads) + 1]]
    IN  IF hasCache
        THEN [started EXCEPT !.loading = TRUE]
        ELSE [started EXCEPT !.loading = FALSE, !.backgroundLoading = TRUE,
                             !.commits = << >>, !.fromCache = FALSE]

\* useEffect(() => { loadCommits(); }, [loadCommits]) (lines 1488-1490)
EffectLoadCommits ==
    /\ hook.mounted /\ hook.effect
    /\ Len(hook.loads) < hook.budget
    /\ \E exists \in BOOLEAN :
          hook' = LoadCommits(hook, FALSE, exists, "effect")
    /\ UNCHANGED <<now, upstream, dbRepo, dbPRs, dbFiles, req, faults, commits, oc, fm, idb, fileState, snapshot, tokenRotator, playback>>

\* The repoPath prop changes: loadCommits is a new callback and the effect
\* is due again (line 1485).
KeyChange(key) ==
    /\ hook.mounted /\ ~hook.effect
    /\ key # hook.key
    /\ Len(hook.loads) < hook.budget
    /\ hook' = [hook EXCEPT !.key = key, !.epoch = @ + 1, !.effect = TRUE,
                            !.event = [kind |-> "keyChange", load |-> 0]]
    /\ UNCHANGED <<now, upstream, dbRepo, dbPRs, dbFiles, req, faults, commits, oc, fm, idb, fileState, snapshot, tokenRotator, playback>>

Unmount ==
    /\ hook.mounted /\ ~hook.effect
    /\ hook' = [hook EXCEPT !.mounted = FALSE,
                            !.event = [kind |-> "unmount", load |-> 0]]
    /\ UNCHANGED <<now, upstream, dbRepo, dbPRs, dbFiles, req, faults, commits, oc, fm, idb, fileState, snapshot, tokenRotator, playback>>

\* ErrorState is rendered when loading is false and error is set; its
\* onRetry calls loadCommits(true) (lines 1501-1516)
Retry ==
    /\ hook.mounted /\ ~hook.effect
    /\ ~hook.loading /\ hook.error # NULL
    /\ Len(hook.loads) < hook.budget
    /\ \E exists \in BOOLEAN :
          hook' = LoadCommits(hook, TRUE, exists, "retry")
    /\ UNCHANGED <<now, upstream, dbRepo, dbPRs, dbFiles, req, faults, commits, oc, fm, idb, fileState, snapshot, tokenRotator, playback>>

\* The awaited getCommitHistory of the cache branch settles (lines 1408-1431)
CacheLoadSettles(l) ==
    /\ ~hook.effect
    /\ hook.loads[l].pc = "cacheLoad"
    /\ \/ hook' = Rendered(hook,
                     [hook EXCEPT !.loads[l].pc = "done",
                                  !.event = [kind |-> "cacheOk", load |-> l],
                                  !.commits = CachedCommits(hook.loads[l].key),
                                  !.fromCache = TRUE,
                                  !.rateLimitedCache = FALSE,
                                  !.loading = FALSE,
                                  !.error = NULL])
       \/ \E e \in FetchErrors \cup {CacheError} :
             hook' = Rendered(hook,
                        [hook EXCEPT !.loads[l].pc = "done",
                                     !.loads[l].err = e,
                                     !.event = [kind |-> "cacheFail", load |-> l],
                                     !.error = e,
                                     !.loading = FALSE,
                                     !.rateLimitedCache = FALSE])
    /\ UNCHANGED <<now, upstream, dbRepo, dbPRs, dbFiles, req, faults, commits, oc, fm, idb, fileState, snapshot, tokenRotator, playback>>

\* The per-item callback of an incremental load (lines 1446-1449)
OnCommit(l) ==
    /\ ~hook.effect
    /\ hook.loads[l].pc = "incremental"
    /\ hook.loads[l].delivered < MaxStream
    /\ hook' = Rendered(hook,
                  [hook EXCEPT !.loads[l].delivered = @ + 1,
                               !.event = [kind |-> "onCommit", load |-> l],
                               !.commits = Append(@,
                                   FreshCommit(hook.loads[l].key,
                                               hook.loads[l].delivered + 1))])
    /\ UNCHANGED <<now, upstream, dbRepo, dbPRs, dbFiles, req, faults, commits, oc, fm, idb, fileState, snapshot, tokenRotator, playback>>

\* The awaited getCommitHistory of the incremental branch settles: it
\* resolves, or it rejects and the catch either starts the cache fallback
\* or shows the error (lines 1440-1456, 1472-1484)
IncrementalSettles(l) ==
    /\ ~hook.effect
    /\ hook.loads[l].pc = "incremental"
    /\ \/ hook' = Rendered(hook,
                     [hook EXCEPT !.loads[l].pc = "done",
                                  !.event = [kind |-> "incrementalOk", load |-> l],
                                  !.backgroundLoading = FALSE])
       \/ \E e \in FetchErrors :
             hook' = IF hook.loads[l].exists
                     THEN [hook EXCEPT !.loads[l].pc = "fallback",
                                       !.loads[l].err = e,
                                       !.event = [kind |-> "fallbackStarts",
                                                  load |-> l]]
                     ELSE Rendered(hook,
                             [hook EXCEPT !.loads[l].pc = "done",
                                          !.loads[l].err = e,
                                          !.event = [kind |-> "noCacheFail",
                                                     load |-> l],
                                          !.error = e,
                                          !.rateLimitedCache = FALSE,
                                          !.backgroundLoading = FALSE])
    /\ UNCHANGED <<now, upstream, dbRepo, dbPRs, dbFiles, req, faults, commits, oc, fm, idb, fileState, snapshot, tokenRotator, playback>>

\* The fallback loads the cached commits and leaves the error in place.
FallbackKeepsError(h, cachedCommits) ==
    [h EXCEPT !.commits = cachedCommits, !.fromCache = TRUE,
              !.rateLimitedCache = TRUE]

\* setCommits(cachedCommits); setFromCache(true);
\* setRateLimitedCache(true); setError(null) (lines 1462-1465)
FallbackLoaded(h, cachedCommits) ==
    [h EXCEPT !.commits = cachedCommits, !.fromCache = TRUE,
              !.rateLimitedCache = TRUE, !.error = NULL]

\* The fallback shows the error of the fallback instead of the original.
ShownFallbackError(original, fallback) == fallback

\* setError(err instanceof Error ? err.message : ...) with err the error of
\* the incremental load, not _cacheErr (lines 1469-1475)
ShownError(original, fallback) == original

\* The awaited getCommitHistory of the cache fallback settles (lines 1457-1484)
FallbackSettles(l) ==
    /\ ~hook.effect
    /\ hook.loads[l].pc = "fallback"
    /\ \/ hook' = Rendered(hook,
                     [FallbackLoaded(hook, CachedCommits(hook.loads[l].key))
                         EXCEPT !.loads[l].pc = "done",
                                !.event = [kind |-> "fallbackOk", load |-> l],
                                !.backgroundLoading = FALSE])
       \/ hook' = Rendered(hook,
                     [hook EXCEPT !.loads[l].pc = "done",
                                  !.event = [kind |-> "fallbackFail", load |-> l],
                                  !.error = ShownError(hook.loads[l].err, CacheError),
                                  !.rateLimitedCache = FALSE,
                                  !.backgroundLoading = FALSE])
    /\ UNCHANGED <<now, upstream, dbRepo, dbPRs, dbFiles, req, faults, commits, oc, fm, idb, fileState, snapshot, tokenRotator, playback>>

\* RepoTimeline is rendered for repository A (the keys are interchangeable).
InitHook(budget) ==
    /\ idb = Unopened
    /\ fileState = Untracked
    /\ snapshot = Unbuilt
    /\ tokenRotator = NoRotator
    /\ playback = NoPlayback
    /\ oc = IdleCall
    /\ fm = IdleFetch
    /\ now = 0
    /\ faults = 0
    /\ commits = 0
    /\ req = [r \in Reqs |-> IdleReq]
    /\ dbRepo = NoRow
    /\ dbPRs = << >>
    /\ dbFiles = [n \in PRNums |-> << >>]
    /\ upstream = [n \in PRNums |-> [state |-> "open", merged_at |-> -1]]
    /\ hook = Mounted("A", budget)

NextHook ==
    \/ EffectLoadCommits
    \/ \E key \in Keys : KeyChange(key)
    \/ Unmount
    \/ Retry
    \/ \E l \in 1..Len(hook.loads) : CacheLoadSettles(l)
    \/ \E l \in 1..Len(hook.loads) : OnCommit(l)
    \/ \E l \in 1..Len(hook.loads) : IncrementalSettles(l)
    \/ \E l \in 1..Len(hook.loads) : FallbackSettles(l)

SpecHook == InitHook(MaxLoads) /\ [][NextHook]_vars

\* The same component followed for fewer calls of loadCommits.
SpecLoad == InitHook(FewLoads) /\ [][NextHook]_vars

\* ------------------------------- IndexedDBService (client cache store)
\* The object store "repositories" of the database "github-timeline", keyed
\* by repoKey (part_002).  A call of saveCommits, loadCommits, clearCache,
\* clearAllCaches or getCacheInfo awaits getDB and opens one transaction;
\* IndexedDB runs the transactions on one object store in the order they
\* were created, so a call is followed in two steps: the transaction is
\* created, and later it runs and the call settles.

\* A commit date as the object store holds it: a Date (kept by the
\* structured clone) or the ISO string of one.
StoredDate(type, ms) == [type |-> type, ms |-> ms]

\* new Date(commit.date) (line 140): a Date, whatever the stored form.
NewDate(date) == StoredDate("Date", date.ms)

CommitData(hash, date) == [hash |-> hash, date |-> date]

\* The commit list handed to saveCommits (its dates are Dates), and the one
\* an earlier release left in the store (its date is a string).
SavedPayloads ==
    { << CommitData("c1", StoredDate("Date", 1)),
         CommitData("c2", StoredDate("Date", 2)) >> }
LegacyPayload == << CommitData("c0", StoredDate("string", 0)) >>

\* Values of the version field: the one of an earlier release, the current.
Versions == {1, CACHE_VERSION}

\* Instants of Date.now() the store is used at: the first visit, the
\* expiry window later, a millisecond after that.
ClockInstants == {0, CACHE_EXPIRY_MS, CACHE_EXPIRY_MS + 1}

\* request.error of a failed request; the rejection of getDB (line 35).
QuotaExceededError == "QuotaExceededError"
RequestErrors == {QuotaExceededError, "UnknownError"}
OpenError == "Failed to open IndexedDB"

\* interface CachedRepoData (lines 3-8); present is FALSE for the result
\* undefined of store.get.
CachedRepoData(repoKey, cached, lastUpdated, version) ==
    [present |-> TRUE, repoKey |-> repoKey, commits |-> cached,
     lastUpdated |-> lastUpdated, version |-> version]
NoData ==
    [present |-> FALSE, repoKey |-> NULL, commits |-> << >>,
     lastUpdated |-> 0, version |-> 0]

\* What a settled call gave its caller.  outcome: the promise resolved or
\* rejected; ok: the boolean of saveCommits, "not null" of loadCommits,
\* exists of getCacheInfo; commits: the list loadCommits resolved with;
\* data: the record the request read (get) or wrote (put); at: Date.now().
Settled(op, repoKey, outcome, ok, loaded, data, at) ==
    [op |-> op, repoKey |-> repoKey, outcome |-> outcome, ok |-> ok,
     commits |-> loaded, data |-> data, at |-> at, error |-> NULL,
     age |-> 0, commitCount |-> 0, behind |-> {},
     afterStale |-> FALSE, racing |-> FALSE,
     prior |-> [op |-> "none", repoKey |-> NULL, outcome |-> "resolved",
                ok |-> FALSE, data |-> NoData, afterStale |-> FALSE,
                racing |-> FALSE]]
NothingSettled == Settled("none", NULL, "resolved", FALSE, << >>, NoData, 0)

\* The result the caller held when it made its next call.
Prior(result) ==
    [op |-> result.op, repoKey |-> result.repoKey,
     outcome |-> result.outcome, ok |-> result.ok, data |-> result.data,
     afterStale |-> result.afterStale, racing |-> result.racing]

\* The calls whose writes are still waiting to run.
Writers(queue) ==
    {queue[i].from : i \in {j \in 1..Len(queue) :
                               queue[j].op \in {"put", "delete", "clear", "evict"}}}

\* The last settled call is a loadCommits that returned null because the
\* record it read had an old version or was expired.
RejectedStale(r) ==
    /\ r.op = "load" /\ r.outcome = "resolved" /\ ~r.ok
    /\ r.data.present

\* The clearCache calls of rejected reads of repoKey that are still waiting.
CleanUps(queue, repoKey) ==
    {i \in 1..Len(queue) : /\ queue[i].op = "delete"
                           /\ queue[i].from = "load"
                           /\ queue[i].repoKey = repoKey}

\* A transaction on the object store and its one request.  from: the call
\* that created it ("load" for the clearCache of a rejected read, nobody
\* awaits that one).  For a get, prior is the result its caller held and
\* behind the calls whose writes it was created behind.  For a put,
\* afterStale: its caller held the null of a rejected read of the same key
\* and nothing but deletes was waiting; racing: the clearCache of such a
\* read was among them.
Transaction(op, repoKey, data, from) ==
    [op |-> op, repoKey |-> repoKey, data |-> data, from |-> from,
     prior |-> IF op = "get" THEN Prior(idb.result)
               ELSE Prior(NothingSettled),
     behind |-> IF op = "get" THEN Writers(idb.queue) ELSE {},
     afterStale |-> /\ op = "put"
                    /\ RejectedStale(idb.result)
                    /\ idb.result.repoKey = repoKey
                    /\ \A i \in 1..Len(idb.queue) : idb.queue[i].op = "delete",
     racing |-> op = "put" /\ CleanUps(idb.queue, repoKey) # {}]

\* IndexedDBService with dbPromise settled (lines 26-57): db is "open" when
\* it resolved and "error" when it rejected; dbPromise is kept either way.
\* budget is the number of calls the run is followed for.
Opened(db, records, budget) ==
    [open |-> TRUE, db |-> db, store |-> records, clock |-> 0, calls |-> 0,
     budget |-> budget, failed |-> 0, queue |-> << >>,
     result |-> NothingSettled]

\* A call may start while the run is followed.
MayCall == idb.open /\ idb.calls < idb.budget

\* Mutant of Enqueue: the newest transaction runs first.
EnqueueAhead(txn) ==
    /\ idb.db = "open"
    /\ idb' = [idb EXCEPT !.queue = << txn >> \o @, !.calls = @ + 1]

\* await this.getDB() resolved: db.transaction(...) and its request.
Enqueue(txn) ==
    /\ idb.db = "open"
    /\ idb' = [idb EXCEPT !.queue = Append(@, txn), !.calls = @ + 1]

\* await this.getDB() rejected: the catch of the call settles it.
OpenFailed(result) ==
    /\ idb.db = "error"
    /\ idb' = [idb EXCEPT !.calls = @ + 1,
                          !.result = [result EXCEPT !.error = OpenError]]

\* clearOldestCache (lines 254-283): the cursor on the index lastUpdated
\* starts at the record with the smallest lastUpdated (the smallest repoKey
\* among equals) and deletes it.
Oldest(records) ==
    CHOOSE k \in DOMAIN records :
        /\ records[k].present
        /\ \A j \in DOMAIN records :
              records[j].present =>
                 \/ records[k].lastUpdated < records[j].lastUpdated
                 \/ /\ records[k].lastUpdated = records[j].lastUpdated
                    /\ (k = j \/ k = "A")
ClearOldestCache(records) ==
    IF \E k \in DOMAIN records : records[k].present
    THEN [records EXCEPT ![Oldest(records)] = NoData]
    ELSE records

\* The catch of saveCommits (lines 90-100): clearOldestCache is awaited for
\* a DOMException named QuotaExceededError, and the call returns false.
\* With getDB rejected, clearOldestCache catches the same rejection.
SaveCaught(err) == err = QuotaExceededError /\ idb.db = "open"

\* saveCommits(repoKey, commits), lines 62-79: the data is built with
\* lastUpdated = Date.now() and version = CACHE_VERSION, then store.put.
SaveCommits(repoKey, saved) ==
    /\ MayCall
    /\ LET data == CachedRepoData(repoKey, saved, idb.clock, CACHE_VERSION)
           evict == Transaction("evict", NULL, NoData, "save")
       IN  \/ Enqueue(Transaction("put", repoKey, data, "save"))
           \/ /\ idb.db = "error"
              /\ idb' = [idb EXCEPT
                    !.calls = @ + 1,
                    !.queue = IF SaveCaught(OpenError) THEN Append(@, evict)
                              ELSE @,
                    !.result = [Settled("save", repoKey, "resolved", FALSE,
                                        << >>, data, idb.clock)
                                   EXCEPT !.error = OpenError]]
    /\ UNCHANGED <<now, upstream, dbRepo, dbPRs, dbFiles, req, faults, commits, oc, fm, hook, fileState, snapshot, tokenRotator, playback>>

\* loadCommits(repoKey), lines 106-113: store.get(repoKey); lines 151-154
\* when getDB rejects.
LoadCommitsCall(repoKey) ==
    /\ MayCall
    /\ \/ Enqueue(Transaction("get", repoKey, NoData, "load"))
       \/ OpenFailed(Settled("load", repoKey, "resolved", FALSE, << >>, NoData,
                         idb.clock))
    /\ UNCHANGED <<now, upstream, dbRepo, dbPRs, dbFiles, req, faults, commits, oc, fm, hook, fileState, snapshot, tokenRotator, playback>>

\* clearCache(repoKey), lines 160-181: store.delete(repoKey).
ClearCache(repoKey) ==
    /\ MayCall
    /\ \/ Enqueue(Transaction("delete", repoKey, NoData, "clear"))
       \/ OpenFailed(Settled("clear", repoKey, "resolved", TRUE, << >>, NoData,
                         idb.clock))
    /\ UNCHANGED <<now, upstream, dbRepo, dbPRs, dbFiles, req, faults, commits, oc, fm, hook, fileState, snapshot, tokenRotator, playback>>

\* clearAllCaches(), lines 186-207: store.clear().
ClearAllCaches ==
    /\ MayCall
    /\ \/ Enqueue(Transaction("clear", NULL, NoData, "clearAll"))
       \/ OpenFailed(Settled("clearAll", NULL, "resolved", TRUE, << >>, NoData,
                         idb.clock))
    /\ UNCHANGED <<now, upstream, dbRepo, dbPRs, dbFiles, req, faults, commits, oc, fm, hook, fileState, snapshot, tokenRotator, playback>>

\* getCacheInfo(repoKey), lines 212-249: store.get(repoKey).
GetCacheInfo(repoKey) ==
    /\ MayCall
    /\ \/ Enqueue(Transaction("info", repoKey, NoData, "info"))
       \/ OpenFailed(Settled("info", repoKey, "resolved", FALSE, << >>, NoData,
                         idb.clock))
    /\ UNCHANGED <<now, upstream, dbRepo, dbPRs, dbFiles, req, faults, commits, oc, fm, hook, fileState, snapshot, tokenRotator, playback>>

\* Date.now() advances.
ClockTick ==
    /\ idb.open
    /\ \E t \in ClockInstants : t > idb.clock /\ idb' = [idb EXCEPT !.clock = t]
    /\ UNCHANGED <<now, upstream, dbRepo, dbPRs, dbFiles, req, faults, commits, oc, fm, hook, fileState, snapshot, tokenRotator, playback>>

\* data.version !== CACHE_VERSION (line 124)
VersionMismatch(data) == data.version # CACHE_VERSION

\* Mutant of Expired: the envelope is kept for two expiry windows.
ExpiredAfterTwoWindows(data, at) == at - data.lastUpdated > 2 * CACHE_EXPIRY_MS

\* Date.now() - data.lastUpdated > CACHE_EXPIRY_MS (line 131)
Expired(data, at) == at - data.lastUpdated > CACHE_EXPIRY_MS

\* data.commits.map(commit => ({...commit, date: new Date(commit.date)}))
\* (lines 138-141)
Deserialize(cached) ==
    [i \in 1..Len(cached) |-> [cached[i] EXCEPT !.date = NewDate(@)]]

\* request.onsuccess of loadCommits (lines 115-144) at Date.now() = at: the
\* value the call resolves with, and whether clearCache(repoKey) is called.
OnLoadSuccess(data, at) ==
    IF ~data.present
    THEN [isNull |-> TRUE, commits |-> << >>, clear |-> FALSE]
    ELSE IF VersionMismatch(data)
    THEN [isNull |-> TRUE, commits |-> << >>, clear |-> TRUE]
    ELSE IF Expired(data, at)
    THEN [isNull |-> TRUE, commits |-> << >>, clear |-> TRUE]
    ELSE [isNull |-> FALSE, commits |-> Deserialize(data.commits),
          clear |-> FALSE]

\* Mutant of Put: the commits are appended to those of the record the key
\* already has.
PutMerged(records, data) ==
    [records EXCEPT ![data.repoKey] =
        [data EXCEPT !.commits = records[data.repoKey].commits \o @]]

\* store.put(data) on a store with keyPath repoKey (lines 47-49, 79): the
\* record of data.repoKey is replaced.
Put(records, data) == [records EXCEPT ![data.repoKey] = data]

\* Mutant of Delete: store.clear() in place of store.delete(repoKey).
DeleteEverything(records, repoKey) == [k \in DOMAIN records |-> NoData]

\* store.delete(repoKey) (line 167)
Delete(records, repoKey) == [records EXCEPT ![repoKey] = NoData]

\* getCacheInfo, lines 228-237: exists is true for any record.
InfoExists(data, at) == data.present

\* The records after the request of a transaction succeeded.
StoreAfter(txn, records) ==
    CASE txn.op = "put" -> Put(records, txn.data)
      [] txn.op = "delete" -> Delete(records, txn.repoKey)
      [] txn.op = "clear" -> [k \in DOMAIN records |-> NoData]
      [] txn.op = "evict" -> ClearOldestCache(records)
      [] OTHER -> records

\* request.onsuccess of each call: what the caller gets.  The clearCache
\* that loadCommits started is awaited by nobody: the caller's result stays.
OnSuccess(txn, data, at) ==
    CASE txn.op = "put" ->
            [Settled("save", txn.repoKey, "resolved", TRUE, << >>, txn.data, at)
                EXCEPT !.afterStale = txn.afterStale, !.racing = txn.racing]
      [] txn.op = "delete" /\ txn.from = "clear" ->
            Settled("clear", txn.repoKey, "resolved", TRUE, << >>, data, at)
      [] txn.op = "clear" ->
            Settled("clearAll", NULL, "resolved", TRUE, << >>, NoData, at)
      [] txn.op = "get" ->
            [Settled("load", txn.repoKey, "resolved",
                     ~OnLoadSuccess(data, at).isNull,
                     OnLoadSuccess(data, at).commits, data, at)
                EXCEPT !.prior = txn.prior, !.behind = txn.behind]
      [] txn.op = "info" ->
            [Settled("info", txn.repoKey, "resolved", InfoExists(data, at),
                     << >>, data, at)
                EXCEPT !.age = IF data.present THEN at - data.lastUpdated ELSE 0,
                       !.commitCount = Len(data.commits)]
      [] OTHER -> idb.result

\* request.onerror of each call: loadCommits resolves null (lines 146-149),
\* getCacheInfo resolves exists: false (240-243); saveCommits, clearCache and
\* clearAllCaches call reject(request.error) (85-88, 173-176, 199-202) on
\* the promise they returned without await from inside their try, so the
\* promise of the call rejects and their catch does not run.
OnError(txn, err, data, at) ==
    CASE txn.op = "put" ->
            [Settled("save", txn.repoKey, "rejected", FALSE, << >>, txn.data, at)
                EXCEPT !.error = err]
      [] txn.op = "delete" /\ txn.from = "clear" ->
            [Settled("clear", txn.repoKey, "rejected", FALSE, << >>, data, at)
                EXCEPT !.error = err]
      [] txn.op = "clear" ->
            [Settled("clearAll", NULL, "rejected", FALSE, << >>, NoData, at)
                EXCEPT !.error = err]
      [] txn.op = "get" ->
            [Settled("load", txn.repoKey, "resolved", FALSE, << >>, NoData, at)
                EXCEPT !.error = err, !.prior = txn.prior,
                       !.behind = txn.behind]
      [] txn.op = "info" ->
            [Settled("info", txn.repoKey, "resolved", FALSE, << >>, NoData, at)
                EXCEPT !.error = err]
      [] OTHER -> idb.result

\* The transactions a request handler creates: clearCache(repoKey) from the
\* onsuccess of loadCommits (lines 125, 132), behind those already created.
Created(txn, data, at) ==
    IF txn.op = "get" /\ OnLoadSuccess(data, at).clear
    THEN << [op |-> "delete", repoKey |-> txn.repoKey, data |-> NoData,
             from |-> "load", prior |-> Prior(NothingSettled),
             behind |-> {}, afterStale |-> FALSE, racing |-> FALSE] >>
    ELSE << >>

\* The oldest transaction runs and its call settles: its request succeeds,
\* or it fails with request.error.
RunTransaction ==
    /\ idb.open
    /\ idb.queue # << >>
    /\ LET txn == Head(idb.queue)
           rest == Tail(idb.queue)
           data == IF txn.repoKey \in Keys THEN idb.store[txn.repoKey] ELSE NoData
       IN  \/ idb' = [idb EXCEPT
                        !.queue = rest \o Created(txn, data, idb.clock),
                        !.store = StoreAfter(txn, idb.store),
                        !.result = OnSuccess(txn, data, idb.clock)]
           \/ /\ idb.failed < MaxFaults
              /\ \E err \in RequestErrors :
                 idb' = [idb EXCEPT
                           !.queue = rest,
                           !.failed = @ + 1,
                           !.result = OnError(txn, err, data, idb.clock)]
    /\ UNCHANGED <<now, upstream, dbRepo, dbPRs, dbFiles, req, faults, commits, oc, fm, hook, fileState, snapshot, tokenRotator, playback>>

\* The store when the page opens: what an earlier visit saved at instant 0
\* (with the version of its release), and for one key possibly nothing.
InitialData(repoKey) ==
    {NoData}
    \cup {CachedRepoData(repoKey, LegacyPayload, 0, v) : v \in Versions}

InitStore(budget) ==
    /\ oc = IdleCall
    /\ fm = IdleFetch
    /\ hook = Unrendered
    /\ fileState = Untracked
    /\ snapshot = Unbuilt
    /\ tokenRotator = NoRotator
    /\ playback = NoPlayback
    /\ now = 0
    /\ faults = 0
    /\ commits = 0
    /\ req = [r \in Reqs |-> IdleReq]
    /\ dbRepo = NoRow
    /\ dbPRs = << >>
    /\ dbFiles = [n \in PRNums |-> << >>]
    /\ upstream = [n \in PRNums |-> [state |-> "open", merged_at |-> -1]]
    /\ \/ \E a \in InitialData("A"), b \in InitialData("B") \ {NoData} :
             idb = Opened("open", [k \in Keys |-> IF k = "A" THEN a ELSE b],
                          budget)
       \/ idb = Opened("error", [k \in Keys |-> NoData], budget)

NextStore ==
    \/ \E k \in Keys, saved \in SavedPayloads : SaveCommits(k, saved)
    \/ \E k \in Keys : LoadCommitsCall(k)
    \/ \E k \in Keys : ClearCache(k)
    \/ ClearAllCaches
    \/ \E k \in Keys : GetCacheInfo(k)
    \/ ClockTick
    \/ RunTransaction

\* The service followed for FewCalls calls, and for MaxCalls calls.
SpecStore == InitStore(FewCalls) /\ [][NextStore]_vars
SpecStoreCalls == InitStore(MaxCalls) /\ [][NextStore]_vars

\* A page that loads and saves the commits of one repository.
NextStoreKey ==
    \/ \E saved \in SavedPayloads : SaveCommits("A", saved)
    \/ LoadCommitsCall("A")
    \/ ClockTick
    \/ RunTransaction

SpecStoreKey == InitStore(MaxCalls) /\ [][NextStoreKey]_vars

\* -------------------------- FileStateTracker and the edges of a snapshot
\* A path is the sequence of its characters, so that split("/") and
\* join("/") are computed as the code computes them.
Slash == "/"

\* Paths the pull requests touch: r.ts, s/i.ts, s/c/d/b.ts
PathPool ==
    { << "r" >>,
      << "s", Slash, "i" >>,
      << "s", Slash, "c", Slash, "d", Slash, "b" >> }

NoPath == << >>

\* GitHubPRFile: filename, status, additions, deletions, previous_filename
\* (absent: the empty string).
PRFile(filename, status, additions, deletions, previous) ==
    [filename |-> filename, status |-> status, additions |-> additions,
     deletions |-> deletions, previous_filename |-> previous]

\* Lines added and deleted by one diff.
Deltas == { <<5, 0>>, <<0, 10>>, <<0, 0>> }

\* The diffs of the pull requests: files added, modified, removed, renamed.
PRFiles ==
    {PRFile(f, "added", 5, 0, NoPath) : f \in PathPool}
    \cup {PRFile(f, "modified", d[1], d[2], NoPath) : f \in PathPool, d \in Deltas}
    \cup {PRFile(f, "removed", 0, 10, NoPath) : f \in PathPool}
    \cup {file \in {PRFile(f, "renamed", d[1], d[2], g) :
                       f \in PathPool, g \in PathPool, d \in Deltas} :
             file.filename # file.previous_filename}

\* The file lists updateFromPRFiles is called with: one diff, or a file
\* that is added and then modified or renamed in the same list.
PRFileLists ==
    { << file >> : file \in PRFiles }
    \cup { << PRFile(f, "added", 5, 0, NoPath), file >> :
              f \in PathPool,
              file \in {x \in PRFiles : x.status \in {"modified", "renamed"}} }

\* Map<string, number>: the entries in insertion order.
MapHas(map, key) == \E i \in 1..Len(map) : map[i][1] = key
MapGet(map, key) == map[CHOOSE i \in 1..Len(map) : map[i][1] = key][2]
MapSet(map, key, value) ==
    IF MapHas(map, key)
    THEN [i \in 1..Len(map) |->
             IF map[i][1] = key THEN <<key, value>> ELSE map[i]]
    ELSE Append(map, <<key, value>>)
MapDelete(map, key) == SelectSeq(map, LAMBDA e : e[1] # key)

\* this.fileState.get(path) || 0
SizeOrZero(map, path) == IF MapHas(map, path) THEN MapGet(map, path) ELSE 0

\* currentSize + file.additions - file.deletions (lines 22, 29)
NewSize(size, file) == size + file.additions - file.deletions

\* The renamed branch of updateFromPRFiles (lines 17-24).
Renamed(map, file) ==
    MapSet(MapDelete(map, file.previous_filename), file.filename,
           NewSize(SizeOrZero(map, file.previous_filename), file))

\* The body of the loop of updateFromPRFiles (lines 15-32) for one file.
UpdateFromPRFile(map, file) ==
    IF file.status = "removed"
    THEN MapDelete(map, file.filename)
    ELSE IF file.status = "renamed" /\ file.previous_filename # NoPath
    THEN Renamed(map, file)
    ELSE MapSet(map, file.filename,
                NewSize(SizeOrZero(map, file.filename), file))

\* The Map after the first n files of the list (lines 13-34).
RECURSIVE UpdatedFrom(_, _, _)
UpdatedFrom(map, files, n) ==
    IF n = 0 THEN map
    ELSE UpdateFromPRFile(UpdatedFrom(map, files, n - 1), files[n])

\* getFileData (lines 46-51): path and size: Math.max(0, size).
GetFileData(map) ==
    [i \in 1..Len(map) |-> [path |-> map[i][1], size |-> Max(0, map[i][2])]]

\* new FileStateTracker(): an empty Map; before and files record the last
\* call of updateFromPRFiles.
Tracking(map, before, files, updates) ==
    [tracking |-> TRUE, map |-> map, before |-> before, files |-> files,
     updates |-> updates]

\* updateFromPRFiles(prFiles)
UpdateFromPRFiles(files) ==
    /\ fileState.tracking
    /\ fileState.updates < MaxUpdates
    /\ fileState' = Tracking(UpdatedFrom(fileState.map, files, Len(files)),
                             fileState.map, files, fileState.updates + 1)
    /\ snapshot' = Unbuilt
    /\ UNCHANGED <<now, upstream, dbRepo, dbPRs, dbFiles, req, faults, commits, oc, fm, hook, idb, tokenRotator, playback>>

\* path.split("/")
RECURSIVE Split(_)
Split(path) ==
    IF path = << >> THEN << << >> >>
    ELSE LET rest == Split(Tail(path))
         IN  IF Head(path) = Slash
             THEN << << >> >> \o rest
             ELSE << << Head(path) >> \o rest[1] >> \o Tail(rest)

\* pathParts.slice(0, n).join("/")
RECURSIVE JoinFirst(_, _)
JoinFirst(pathParts, n) ==
    IF n = 0 THEN << >>
    ELSE IF n = 1 THEN pathParts[1]
    ELSE JoinFirst(pathParts, n - 1) \o << Slash >> \o pathParts[n]

\* The virtual root "/".
VirtualRoot == << Slash >>

Edge(source, target) == [source |-> source, target |-> target, type |-> "parent"]

\* Mutant of EdgeKey: every directory edge has the same key.
SameEdgeKey(parentDirPath, dirPath) == VirtualRoot

\* `${parentDirPath || "/"}->${dirPath}` (part_010, line 32)
EdgeKey(parentDirPath, dirPath) ==
    (IF parentDirPath = << >> THEN VirtualRoot ELSE parentDirPath)
        \o << "-", ">" >> \o dirPath

\* Mutant of IsNewEdge: every directory edge is taken as new.
AlwaysNewEdge(directoriesAdded, edgeKey) == TRUE

\* !directoriesAdded.has(edgeKey) (line 35)
IsNewEdge(directoriesAdded, edgeKey) == edgeKey \notin directoriesAdded

\* The loop over the directories of one path (lines 27-57), after its
\* first n rounds: i = 0 .. n - 1.
RECURSIVE DirectoryEdges(_, _, _)
DirectoryEdges(built, pathParts, n) ==
    IF n = 0 THEN built
    ELSE LET b == DirectoryEdges(built, pathParts, n - 1)
             i == n - 1
             dirPath == JoinFirst(pathParts, i + 1)
             parentDirPath == IF i > 0 THEN JoinFirst(pathParts, i) ELSE << >>
             edgeKey == EdgeKey(parentDirPath, dirPath)
         IN  IF IsNewEdge(b.directoriesAdded, edgeKey)
             THEN [edges |-> Append(b.edges,
                        IF parentDirPath = << >>
                        THEN Edge(VirtualRoot, dirPath)
                        ELSE Edge(parentDirPath, dirPath)),
                   directoriesAdded |-> b.directoriesAdded \cup {edgeKey}]
             ELSE b

\* The body of files.forEach (lines 11-67) for one file.
FileEdges(built, file) ==
    LET pathParts == Split(file.path)
    IN  IF Len(pathParts) > 1
        THEN DirectoryEdges(
                [built EXCEPT !.edges =
                    Append(@, Edge(JoinFirst(pathParts, Len(pathParts) - 1),
                                   file.path))],
                pathParts, Len(pathParts) - 1)
        ELSE [built EXCEPT !.edges = Append(@, Edge(VirtualRoot, file.path))]

\* files.forEach(...) over the first n files.
RECURSIVE EdgesOf(_, _)
EdgesOf(files, n) ==
    IF n = 0 THEN [edges |-> << >>, directoriesAdded |-> {}]
    ELSE FileEdges(EdgesOf(files, n - 1), files[n])

\* The nodes of the snapshot of a file list: one file node per path, one
\* directory node per distinct proper prefix of a path.
Nodes(files) ==
    {files[i].path : i \in 1..Len(files)}
    \cup UNION { {JoinFirst(Split(files[i].path), k) :
                     k \in 1..(Len(Split(files[i].path)) - 1)} :
                 i \in 1..Len(files) }

\* The directory nodes of the snapshot after the first k prefixes of one
\* path: a prefix already among the nodes is not added again.
RECURSIVE DirectoriesOfPath(_, _, _)
DirectoriesOfPath(nodes, pathParts, k) ==
    IF k = 0 THEN nodes
    ELSE LET seen == DirectoriesOfPath(nodes, pathParts, k - 1)
             dirPath == JoinFirst(pathParts, k)
         IN  IF \E i \in 1..Len(seen) : seen[i] = dirPath
             THEN seen
             ELSE Append(seen, dirPath)

\* The directory nodes of the snapshot of the first n files.
RECURSIVE DirectoryNodes(_, _)
DirectoryNodes(files, n) ==
    IF n = 0 THEN << >>
    ELSE LET pathParts == Split(files[n].path)
         IN  DirectoriesOfPath(DirectoryNodes(files, n - 1), pathParts,
                               Len(pathParts) - 1)

\* The snapshot of the tracked files is built.
BuildSnapshot ==
    /\ fileState.tracking
    /\ ~snapshot.built
    /\ LET files == GetFileData(fileState.map)
       IN  snapshot' = [built |-> TRUE, files |-> files,
                        directories |-> DirectoryNodes(files, Len(files)),
                        edges |-> EdgesOf(files, Len(files)).edges]
    /\ UNCHANGED <<now, upstream, dbRepo, dbPRs, dbFiles, req, faults, commits, oc, fm, hook, idb, fileState, tokenRotator, playback>>

InitTracker ==
    /\ oc = IdleCall
    /\ fm = IdleFetch
    /\ hook = Unrendered
    /\ idb = Unopened
    /\ now = 0
    /\ faults = 0
    /\ commits = 0
    /\ req = [r \in Reqs |-> IdleReq]
    /\ dbRepo = NoRow
    /\ dbPRs = << >>
    /\ dbFiles = [n \in PRNums |-> << >>]
    /\ upstream = [n \in PRNums |-> [state |-> "open", merged_at |-> -1]]
    /\ fileState = Tracking(<< >>, << >>, << >>, 0)
    /\ snapshot = Unbuilt
    /\ tokenRotator = NoRotator
    /\ playback = NoPlayback

NextTracker ==
    \/ \E files \in PRFileLists : UpdateFromPRFiles(files)
    \/ BuildSnapshot

SpecTracker == InitTracker /\ [][NextTracker]_vars

\* ------------------------------------- TokenRotator: construction and calls
\* The characters of env.GITHUB_TOKENS.
Comma == ","
Blank == " "
TokenChars == {"a", "b", Comma, Blank}

\* The values of env.GITHUB_TOKENS: the strings of at most MaxTokenChars
\* characters.
TokenStrings == UNION { [1..n -> TokenChars] : n \in 0..MaxTokenChars }

\* tokensString.split(',')
RECURSIVE SplitOnComma(_)
SplitOnComma(str) ==
    IF str = << >> THEN << << >> >>
    ELSE LET rest == SplitOnComma(Tail(str))
         IN  IF Head(str) = Comma
             THEN << << >> >> \o rest
             ELSE << << Head(str) >> \o rest[1] >> \o Tail(rest)

\* t.trim()
RECURSIVE TrimStart(_)
TrimStart(t) ==
    IF t # << >> /\ Head(t) = Blank THEN TrimStart(Tail(t)) ELSE t

RECURSIVE TrimEnd(_)
TrimEnd(t) ==
    IF t # << >> /\ t[Len(t)] = Blank
    THEN TrimEnd(SubSeq(t, 1, Len(t) - 1))
    ELSE t

Trim(t) == TrimEnd(TrimStart(t))

\* tokensString.split(',').map(t => t.trim()).filter(t => t.length > 0)
TokensOf(tokensString) ==
    LET parts == SplitOnComma(tokensString)
    IN  SelectSeq([i \in 1..Len(parts) |-> Trim(parts[i])],
                  LAMBDA t : Len(t) > 0)

NoToken == << >>

\* new TokenRotator(tokensString): throws when no token is configured.
Constructed(tokensString) ==
    IF Len(TokensOf(tokensString)) = 0
    THEN [built |-> FALSE, error |-> "No GitHub tokens configured"]
    ELSE [built |-> TRUE, tokens |-> TokensOf(tokensString),
          currentIndex |-> 0, calls |-> 0, token |-> NoToken]

\* tokenRotator.getNextToken(): token is the value returned, calls the
\* number of calls made so far.
GetNextTokenCall ==
    /\ tokenRotator.built
    /\ tokenRotator.calls < MaxRotations
    /\ LET next == GetNextToken(tokenRotator)
       IN  tokenRotator' = [next.rot EXCEPT !.calls = @ + 1,
                                           !.token = next.token]
    /\ UNCHANGED <<now, upstream, dbRepo, dbPRs, dbFiles, req, faults, commits, oc, fm, hook, idb, fileState, snapshot, playback>>

InitRotator ==
    /\ oc = IdleCall
    /\ fm = IdleFetch
    /\ hook = Unrendered
    /\ idb = Unopened
    /\ fileState = Untracked
    /\ snapshot = Unbuilt
    /\ playback = NoPlayback
    /\ now = 0
    /\ faults = 0
    /\ commits = 0
    /\ req = [r \in Reqs |-> IdleReq]
    /\ dbRepo = NoRow
    /\ dbPRs = << >>
    /\ dbFiles = [n \in PRNums |-> << >>]
    /\ upstream = [n \in PRNums |-> [state |-> "open", merged_at |-> -1]]
    /\ tokenRotator \in {Constructed(str) : str \in TokenStrings}

NextRotator == GetNextTokenCall

SpecRotator == InitRotator /\ [][NextRotator]_vars


\* ------------------------------------------------------------------ Init
\* env.DB is handed to the handler by the runtime: its rows are an input.
\* Three stores: no row at all; a repos row without pull requests (the
\* repos table is shared with the commit based variant); a repos row with
\* pull request 1 and its file.
Seeds == 0..2

Init ==
    /\ hook = Unrendered
    /\ idb = Unopened
    /\ fileState = Untracked
    /\ snapshot = Unbuilt
    /\ tokenRotator = NoRotator
    /\ playback = NoPlayback
    /\ oc = IdleCall
    /\ fm = IdleFetch
    /\ now = 0
    /\ faults = 0
    /\ commits = 0
    /\ req = [r \in Reqs |-> IdleReq]
    /\ \E seed \in Seeds :
          /\ dbRepo = (IF seed = 0 THEN NoRow
                       ELSE [id |-> 1, last_updated |-> 0,
                             last_pr_number |-> IF seed = 2 THEN 1 ELSE 0])
          /\ dbPRs = (IF seed = 2 THEN [n \in {1} |-> 0] ELSE << >>)
          /\ dbFiles = [n \in PRNums |-> IF seed = 2 /\ n = 1 THEN UpFiles(1)
                                         ELSE << >>]
          /\ upstream = [n \in PRNums |->
                           IF seed = 2 /\ n = 1
                           THEN [state |-> "merged", merged_at |-> 0]
                           ELSE [state |-> "open", merged_at |-> -1]]

Next ==
    \/ \E r \in Reqs : ReqSelectRepo(r)
    \/ \E r \in Reqs : ReqSelectPRs(r)
    \/ \E r \in Reqs : TaskFetchPage(r)
    \/ \E r \in Reqs : TaskFetchFiles(r)
    \/ \E r \in Reqs : TaskStoreRepo(r)
    \/ \E r \in Reqs : TaskStorePR(r)
    \/ \E r \in Reqs : TaskWrite(r)
    \/ Tick
    \/ \E n \in PRNums : UpstreamClose(n)

Spec == Init /\ [][Next]_vars

\* ------------------------------------------------ updateRepoData on its own
\* updateRepoData(db, token, owner, repo, lastPrNumber) is called at
\* instant ms (index.ts:232-258).
UpdateCall(lastPrNumber, ms) ==
    [IdleReq EXCEPT !.pc = "fetchPage", !.kind = "update",
                    !.token = GetNextToken(NewRotator).token,
                    !.since = lastPrNumber + 1, !.page = 1, !.startMs = ms]

\* The second after which a stored repository is stale, in milliseconds.
StaleInstant == (StaleAfterSec + 1) * 1000

\* A pull request merged between the previous sync (second 0) and the call.
MergedSince == StaleAfterSec \div 2

\* Calls of updateRepoData, one per stale lookup, on a store that holds the
\* pull requests of stored, synced at second 0 and now stale; the pull
\* requests of later were merged upstream after that sync, the others are
\* still open.
InitUpdate ==
    /\ hook = Unrendered
    /\ idb = Unopened
    /\ fileState = Untracked
    /\ snapshot = Unbuilt
    /\ tokenRotator = NoRotator
    /\ playback = NoPlayback
    /\ oc = IdleCall
    /\ fm = IdleFetch
    /\ now = StaleInstant
    /\ faults = 0
    /\ commits = 0
    /\ \E stored \in (SUBSET PRNums) \ {{}} :
       \E later \in SUBSET (PRNums \ stored) :
          /\ upstream = [n \in PRNums |->
                IF n \in stored THEN [state |-> "merged", merged_at |-> 0]
                ELSE IF n \in later
                     THEN [state |-> "merged", merged_at |-> MergedSince]
                     ELSE [state |-> "open", merged_at |-> -1]]
          /\ dbRepo = [id |-> 1, last_updated |-> 0,
                       last_pr_number |-> CHOOSE n \in stored :
                                             \A m \in stored : m <= n]
          /\ dbPRs = [n \in stored |-> 0]
          /\ dbFiles = [n \in PRNums |->
                          IF n \in stored THEN UpFiles(n) ELSE << >>]
          /\ \E callers \in (SUBSET Reqs) \ {{}} :
                req = [r \in Reqs |->
                         IF r \in callers
                         THEN UpdateCall(CHOOSE n \in stored :
                                            \A m \in stored : m <= n,
                                         StaleInstant)
                         ELSE IdleReq]

NextUpdate ==
    \/ \E r \in Reqs : TaskFetchPage(r)
    \/ \E r \in Reqs : TaskFetchFiles(r)
    \/ \E r \in Reqs : TaskStoreRepo(r)
    \/ \E r \in Reqs : TaskStorePR(r)
    \/ \E r \in Reqs : TaskWrite(r)
    \/ \E n \in PRNums : UpstreamClose(n)

SpecUpdate == InitUpdate /\ [][NextUpdate]_vars

\* ------------------------------------------------------------------
\* usePlaybackTimer (hooks/usePlaybackTimer.ts) with getCurrentIndex and
\* getNextVisibleCommitIndex (utils/fileStateTracker.ts).  A commit is its
\* date in milliseconds; indices count from 0 as in the code, so commit i
\* of the code is commits[i + 1] here.
PlaybackSpeeds == {1, 60, 300, 1800}
PlaybackDirections == {"forward", "reverse"}

\* Dates that lie close together and far apart for the speeds above.
CommitTimes == {0, 3000, 6000, 186000}

\* The date-sorted lists of at most MaxLog commits (equal dates allowed).
CommitLists ==
    UNION {{cs \in [1..n -> CommitTimes] :
                \A i \in 1..(n - 1) : cs[i] <= cs[i + 1]} : n \in 1..MaxLog}

GetCurrentIndex(cs, time) ==
    IF Len(cs) = 0 THEN 0
    ELSE LET upTo == {i \in 0..(Len(cs) - 1) : cs[i + 1] <= time}
         IN  IF upTo = {} THEN 0
             ELSE CHOOSE i \in upTo : \A j \in upTo : j <= i

\* The while loop of getNextVisibleCommitIndex.  timeDiffMs / 1000 /
\* playbackSpeed >= ANIMATION_SETTLE_TIME is compared without the division.
RECURSIVE LookAhead(_, _, _, _)
LookAhead(cs, candidateIndex, playbackSpeed, increment) ==
    IF ~(candidateIndex >= 0 /\ candidateIndex < Len(cs) - 1)
    THEN candidateIndex
    ELSE LET nextIndex == candidateIndex + increment
         IN  IF nextIndex < 0 \/ nextIndex >= Len(cs)
             THEN candidateIndex
             ELSE LET currentCommitTime == cs[candidateIndex + 1]
                      nextCommitTime == cs[nextIndex + 1]
                      timeDiffMs ==
                          Max(nextCommitTime - currentCommitTime,
                              currentCommitTime - nextCommitTime)
                  IN  IF timeDiffMs >=
                             ANIMATION_SETTLE_TIME * 1000 * playbackSpeed
                      THEN candidateIndex
                      ELSE LookAhead(cs, nextIndex, playbackSpeed, increment)

GetNextVisibleCommitIndex(cs, currentIndex, playbackSpeed, direction) ==
    LET increment == IF direction = "forward" THEN 1 ELSE -1
        candidateIndex == currentIndex + increment
    IN  IF Len(cs) = 0 THEN currentIndex
        ELSE IF candidateIndex < 0 \/ candidateIndex >= Len(cs)
        THEN currentIndex
        ELSE IF playbackSpeed <= 1 THEN candidateIndex
        ELSE LookAhead(cs, candidateIndex, playbackSpeed, increment)

\* One run of the interval callback: the updater handed to onTimeChange,
\* with the calls of onPlayingChange it makes.  The interval exists only
\* while isPlaying and hasCommits hold.
PlaybackTick ==
    /\ playback.mounted
    /\ playback.isPlaying
    /\ Len(playback.commits) > 0
    /\ LET cs == playback.commits
           prevTime == playback.currentTime
           timeRange == playback.timeRange
           playbackDirection == playback.playbackDirection
           timeIncrement == UpdateInterval * playback.playbackSpeed
           currentIndex == GetCurrentIndex(cs, prevTime)
           moved == currentIndex # playback.lastCommitIndex
           nextVisibleIndex ==
               GetNextVisibleCommitIndex(cs, currentIndex,
                                         playback.playbackSpeed,
                                         playbackDirection)
           jumps == moved /\ nextVisibleIndex >= 0
                          /\ nextVisibleIndex < Len(cs)
           nextVisibleTime == cs[nextVisibleIndex + 1]
           nextTime == IF playbackDirection = "forward"
                       THEN prevTime + timeIncrement
                       ELSE prevTime - timeIncrement
           ref == IF moved THEN nextVisibleIndex
                  ELSE playback.lastCommitIndex
           stopAt(t) == [playback EXCEPT !.lastCommitIndex = ref,
                                         !.isPlaying = FALSE,
                                         !.currentTime = t]
           goTo(t) == [playback EXCEPT !.lastCommitIndex = ref,
                                       !.currentTime = t]
       IN  playback' =
             IF jumps
             THEN IF playbackDirection = "forward"
                     /\ nextVisibleTime >= timeRange.end
                  THEN stopAt(timeRange.end)
                  ELSE IF playbackDirection = "backward"
                          /\ nextVisibleTime <= timeRange.start
                  THEN stopAt(timeRange.start)
                  ELSE goTo(nextVisibleTime)
             ELSE IF playbackDirection = "forward"
             THEN IF nextTime >= timeRange.end
                  THEN stopAt(timeRange.end)
                  ELSE goTo(nextTime)
             ELSE IF nextTime <= timeRange.start
                  THEN stopAt(timeRange.start)
                  ELSE goTo(nextTime)
    /\ UNCHANGED <<now, upstream, dbRepo, dbPRs, dbFiles, req, faults, commits, oc, fm, hook, idb, fileState, snapshot, tokenRotator>>

\* Playing starts on a loaded timeline: the range is the one of the commits,
\* the time is where the user left the scrubber, lastCommitIndexRef is -1.
InitPlayback ==
    /\ oc = IdleCall
    /\ fm = IdleFetch
    /\ hook = Unrendered
    /\ idb = Unopened
    /\ fileState = Untracked
    /\ snapshot = Unbuilt
    /\ tokenRotator = NoRotator
    /\ now = 0
    /\ faults = 0
    /\ commits = 0
    /\ req = [r \in Reqs |-> IdleReq]
    /\ dbRepo = NoRow
    /\ dbPRs = << >>
    /\ dbFiles = [n \in PRNums |-> << >>]
    /\ upstream = [n \in PRNums |-> [state |-> "open", merged_at |-> -1]]
    /\ \E cs \in CommitLists, speed \in PlaybackSpeeds,
          direction \in PlaybackDirections :
          \E time \in {cs[i] : i \in 1..Len(cs)} :
              playback = [mounted |-> TRUE,
                          commits |-> cs,
                          isPlaying |-> TRUE,
                          playbackSpeed |-> speed,
                          playbackDirection |-> direction,
                          timeRange |-> [start |-> cs[1], end |-> cs[Len(cs)]],
                          currentTime |-> time,
                          lastCommitIndex |-> -1]

NextPlayback == PlaybackTick

SpecPlayback == InitPlayback /\ [][NextPlayback]_vars

\* The interval fires every 100 ms for as long as it exists.
FairPlayback == SpecPlayback /\ WF_vars(PlaybackTick)

\* ============================================================== properties
\* The lookup of request r found pull requests stored for the repository.
SawData(r) == DOMAIN req[r].seenPRs # {}

\* The change records a store holds, in timeline order.
CachedRecords(prs, files) ==
    LET order == OrderByMergedAt(prs, DOMAIN prs)
    IN  [i \in 1..Len(order) |-> Change(order[i], prs[order[i]], files[order[i]])]

RECURSIVE SumLen(_, _)
SumLen(files, ns) ==
    IF ns = {} THEN 0
    ELSE LET n == CHOOSE m \in ns : TRUE
         IN  Len(files[n]) + SumLen(files, ns \ {n})

\* Row counts of a store: pull_requests rows and pr_files rows.
RowCounts(db) == << Cardinality(DOMAIN db.prs), SumLen(db.files, PRNums) >>

\* The content of a store apart from the time of the last sync.
Content(db) == << db.prs, db.files, db.repo.last_pr_number >>

\* The sync cycle of request r ran to its end without an error.
Completed(r) == req[r].pc = "end" /\ req[r].outcome = "completed"

\* The cycle of request r committed a batch.
Wrote(r) == Completed(r) /\ req[r].committed > 0

\* C1: when the store holds data for the repository, the handler answers
\* with the cached change records (a cache-hit response), and does so as soon
\* as the lookup is over, whatever the state of a sync it scheduled.
C1_HitServesCache ==
    \A r \in Reqs : SawData(r) =>
        /\ req[r].resp.status = 200
        /\ req[r].resp.cache = "HIT"
        /\ req[r].resp.body = CachedRecords(req[r].seenPRs, req[r].seenFiles)

\* C2: on a lookup that found data, a background sync is scheduled if and
\* only if the cache age is strictly greater than one hour.
C2_SyncIffStale ==
    \A r \in Reqs : SawData(r) =>
        ((req[r].ageMs > StaleAfterSec * 1000) <=> (req[r].kind = "update"))

\* C3: with nothing cached and no store or upstream failure, the full sync
\* persists every fetched change record with its file diffs and the handler
\* returns them.
C3_MissPersistsAndReturns ==
    \A r \in Reqs :
        (req[r].kind = "full" /\ req[r].pc = "end" /\ faults = 0) =>
            /\ req[r].resp.status = 200
            /\ req[r].resp.body = req[r].allPRs
            /\ \A i \in 1..Len(req[r].allPRs) :
                  LET pr == req[r].allPRs[i]
                  IN  /\ pr.number \in DOMAIN dbPRs
                      /\ dbFiles[pr.number] = pr.files

\* C4: at every moment each stored change record has all of the file diffs
\* that were fetched for it (no file request failed).
C4_RecordsHaveTheirFiles ==
    faults = 0 =>
        \A n \in DOMAIN dbPRs : \A i \in 1..Len(UpFiles(n)) :
            \E j \in 1..Len(dbFiles[n]) : dbFiles[n][j] = UpFiles(n)[i]

\* C5: applying the same fetched cycle result a second time, right after the
\* first, leaves the row counts of pull_requests and pr_files as they were
\* after the first.
C5_SecondApplyKeepsRowCounts ==
    \A a, b \in Reqs :
        (/\ Wrote(a) /\ Wrote(b)
         /\ req[a].allPRs = req[b].allPRs
         /\ req[b].began = req[a].committed
         /\ req[b].committed = req[a].committed + 1)
        => RowCounts(req[b].after) = RowCounts(req[a].after)

\* C6: when two sync cycles for the repository overlap and fetched the same
\* list, then however their store reads and writes interleave, the store
\* content after both equals the content after one of them alone.
C6_OverlapEqualsSingleSync ==
    \A a, b \in Reqs :
        (/\ Wrote(a) /\ Wrote(b)
         /\ req[a].allPRs = req[b].allPRs
         /\ req[b].startSeq < req[a].committed
         /\ req[b].committed = req[a].committed + 1)
        => Content(req[b].after) = Content(req[a].after)

\* C7: after every completed sync cycle, with or without new items, the
\* repository's lastSyncedAt is at or after the time the cycle started
\* (in whole seconds, as last_updated is stored).
C7_LastSyncedAdvances ==
    \A r \in Reqs : Completed(r) =>
        /\ req[r].after.repo # NoRow
        /\ req[r].after.repo.last_updated >= NowSec(req[r].startMs)

\* C8: after every completed sync cycle the stored lastExternalId is the
\* largest externalId among the stored change records.
C8_LastIdIsMaxStored ==
    \A r \in Reqs :
        (Completed(r) /\ DOMAIN req[r].after.prs # {}) =>
            /\ req[r].after.repo # NoRow
            /\ \A n \in DOMAIN req[r].after.prs :
                  n <= req[r].after.repo.last_pr_number
            /\ req[r].after.repo.last_pr_number \in DOMAIN req[r].after.prs

OldestN(n) == [i \in 1..n |-> i]

\* The number of commits on the true last page of a branch of T commits.
LastPageSize(T) ==
    IF T = 0 THEN 0 ELSE T - (CeilDiv(T, PerPage) - 1) * PerPage

\* The pagination metadata lets the client find the true last page: the
\* header is the accurate one, or it names the true last page, or it names
\* an empty page and the probed count is accurate.
MetadataUsable ==
    \/ oc.link = TrueLink(oc.T, PerPage)
    \/ /\ oc.link.kind = "last"
       /\ \/ oc.link.page = Max(1, CeilDiv(oc.T, PerPage))
          \/ oc.probeExtra = 0

\* C10 as stated: for a branch of T commits with accurate pagination
\* metadata, fetching the oldest changes with limit N returns exactly the
\* min(N, T) chronologically oldest commits, oldest first.
C10_ReturnsMinNT ==
    (oc.pc = "done" /\ oc.link = TrueLink(oc.T, PerPage)) =>
        oc.result = OldestN(Min(oc.limit, oc.T))

\* C10 amended: with usable pagination metadata, fetching the oldest changes
\* with limit N returns exactly the min(N, L) chronologically oldest
\* commits, oldest first, L being the number of commits on the true last
\* page of the branch.
C10_ReturnsOldestOfLastPage ==
    (oc.pc = "done" /\ MetadataUsable) =>
        oc.result = OldestN(Min(oc.limit, LastPageSize(oc.T)))

\* A call on 150 commits with limit 100 that met the empty last page,
\* probed, refetched and returned the 50 commits of the true last page.
C10_Witness ==
    /\ oc.pc = "done" /\ MetadataUsable
    /\ oc.T = 150 /\ oc.limit = 100
    /\ Len(oc.reqs) = 4
    /\ oc.result = OldestN(50)

\* The call followed the "last" link and the page it names holds no commit.
ReportedLastPageEmpty ==
    /\ oc.link.kind = "last"
    /\ Len(oc.reqs) >= 2
    /\ ~(oc.pc = "failed" /\ Len(oc.reqs) = 2)
    /\ Len(CommitPage(oc.T, PerPage, oc.reqs[2].page)) = 0

\* The last page of a branch of count commits.
PagesFor(count) == (count + PerPage - 1) \div PerPage

\* The requests of the call that ask for one item.
ProbeRequests == {i \in 1..Len(oc.reqs) : oc.reqs[i].per = 1}

\* C11 as stated: when the reported last page returns zero items, the call
\* issues exactly one 1-item probe request, recomputes the last page from
\* the probed count and fetches that page exactly once after the probe; if
\* that page is empty too it returns an empty history, with no error and no
\* further request.
C11_ProbeThenRefetchOnce ==
    (oc.pc = "done" /\ ReportedLastPageEmpty) =>
        /\ ProbeRequests = {3}
        /\ Len(oc.reqs) = 4
        /\ oc.reqs[4] = Request("GET", PerPage, PagesFor(oc.count))
        /\ (Len(CommitPage(oc.T, PerPage, oc.reqs[4].page)) = 0
               => oc.result = << >>)

\* C11 amended: when the reported last page returns zero items, the call
\* issues exactly one 1-item probe request and never more than one request
\* after it; a call that returns has recomputed the last page from the
\* probed count and, when that page is the reported one, returned an empty
\* history without any further request, and otherwise fetched the recomputed
\* page exactly once, returning an empty history if it is empty too.
C11_ProbeThenRefetchUnlessSamePage ==
    ReportedLastPageEmpty =>
        /\ ProbeRequests \subseteq {3}
        /\ Len(oc.reqs) <= 4
        /\ oc.pc \in {"done", "retry"} => oc.reqs[3] = Request("GET", 1, 1)
        /\ oc.pc = "done" =>
              IF PagesFor(oc.count) = oc.reqs[2].page
              THEN Len(oc.reqs) = 3 /\ oc.result = << >>
              ELSE /\ Len(oc.reqs) = 4
                   /\ oc.reqs[4] = Request("GET", PerPage, PagesFor(oc.count))
                   /\ (Len(CommitPage(oc.T, PerPage, oc.reqs[4].page)) = 0
                          => oc.result = << >>)

\* A call that met an empty reported last page, probed, fetched a recomputed
\* page that differs from the reported one, found it empty too and returned
\* an empty history.
C11_Witness ==
    /\ oc.pc = "done" /\ ReportedLastPageEmpty
    /\ Len(oc.reqs) = 4
    /\ oc.reqs[3] = Request("GET", 1, 1)
    /\ oc.reqs[4].page # oc.reqs[2].page
    /\ oc.result = << >>

\* The list-page requests of the call that were answered, and how many
\* items each page held.
PagesRead == SelectSeq(fm.listed, LAMBDA l : l.len >= 0)

\* C12 as stated: a change-list fetch issues no list-page request after the
\* first page that holds fewer than a full page of items, nor after the
\* page-count ceiling has been reached, so the number of list-page requests
\* of one cycle never exceeds the ceiling.
C12_ListRequestsWithinCeiling ==
    /\ Len(fm.listed) <= fm.maxPages
    /\ \A i \in 1..(Len(fm.listed) - 1) : fm.listed[i].len = PerPage

\* C12, termination: every change-list fetch ends, returning or failing.
C12_FetchTerminates == <>(fm.pc \in {"done", "failed"})

\* The merged pull requests numbered from..to that pass the since filter,
\* in list order.
MergedNew(call, from, to) ==
    SelectSeq([k \in 1..Max(0, to - from + 1) |-> from + k - 1],
              LAMBDA n : /\ IsMergedNumber(call.every, n)
                         /\ (call.since # 0 => n >= call.since))

\* The items the call returns when no files request fails: the merged, new
\* pull requests of the pages up to the ceiling, up to the item limit.
ExpectedNumbers(call) ==
    IF call.variant = "index" THEN MergedNew(call, 1, call.T)
    ELSE LET all == MergedNew(call, 1, Min(call.T, call.maxPages * PerPage))
         IN  SubSeq(all, 1, Min(Len(all), PrLimit))

FoundOnPagesRead ==
    MergedNew(fm, 1, Min(fm.T, Len(PagesRead) * PerPage))

Numbers(prs) == [i \in 1..Len(prs) |-> prs[i].number]

\* C15 as stated: the result of a fetch consists exactly of the merged
\* pull requests found on the pages read, each once and in page order; with
\* a since number given, none of them is an already seen one.
C15_ExactlyTheMergedOfPagesRead ==
    fm.pc = "done" => Numbers(fm.allPRs) = FoundOnPagesRead

\* C15 amended: the result of a fetch consists of merged pull requests
\* found on the pages read, each once and in page order, none unmerged and,
\* with a since number given, none numbered below it; the fetch of index.ts
\* returns all of them, the fetch of api/github.ts the first 45 of them.
C15_MergedOfPagesReadUpToLimit ==
    fm.pc = "done" =>
        /\ Numbers(fm.allPRs) =
              IF fm.variant = "index" THEN FoundOnPagesRead
              ELSE SubSeq(FoundOnPagesRead, 1, Min(Len(FoundOnPagesRead), PrLimit))
        /\ \A i \in 1..Len(fm.allPRs) :
              /\ IsMerged(fm.allPRs[i])
              /\ fm.since # 0 => fm.allPRs[i].number >= fm.since

\* A call with a since number read two pages that hold merged and unmerged
\* pull requests, some below the since number, and returned.
C15_Witness ==
    /\ fm.pc = "done"
    /\ fm.every = 2 /\ fm.since = 101 /\ fm.T = 250
    /\ Len(PagesRead) >= 2
    /\ fm.allPRs # << >>
    /\ fm.allPRs[1].number = 102

\* The error kind the status of a response stands for: rate limit for 403
\* and 429, not found for 404, else the generic error with the status.
ErrorKindFor(status) ==
    CASE status \in {403, 429} -> UpstreamError("rate limit", 0)
      [] status = 404 -> UpstreamError("not found", 0)
      [] OTHER -> GenericError(status)

\* C14 as stated: a request of the client that is answered with a non-2xx
\* status raises the error its status stands for: the rate-limit error for
\* 403 and 429, the not-found error for 404, and for any other status the
\* generic upstream error carrying the status.
C14_ErrorKindFollowsStatus ==
    oc.pc = "failed" => oc.error = ErrorKindFor(oc.status)

\* The load that took the last step, and whether it was started for the
\* repository the component shows now.
LastLoad == hook.loads[hook.event.load]
IsCurrent(load) == hook.mounted /\ load.epoch = hook.epoch

\* C16: when an incremental load for the repository shown has failed with
\* a fetch error and a cache existed, the cache fallback that succeeds
\* leaves the component ready (not loading, no error shown), with fromCache
\* set and the cached commits of the repository loaded.
C16_FallbackEndsReadyFromCache ==
    (hook.mounted /\ hook.event.kind = "fallbackOk" /\ IsCurrent(LastLoad)) =>
        /\ LastLoad.exists /\ LastLoad.err \in FetchErrors
        /\ ~hook.loading /\ ~hook.backgroundLoading
        /\ hook.error = NULL
        /\ hook.fromCache
        /\ hook.commits = CachedCommits(hook.key)

\* A retry was rate limited after it had streamed a commit, fell back to
\* the cache and left the component ready with the cached commits.
C16_Witness ==
    /\ hook.mounted /\ hook.event.kind = "fallbackOk" /\ IsCurrent(LastLoad)
    /\ LastLoad.err = "GitHub API rate limit exceeded"
    /\ LastLoad.delivered > 0
    /\ ~hook.loading /\ hook.error = NULL /\ hook.fromCache
    /\ hook.commits = CachedCommits(hook.key)

\* C17 as stated: an error is shown only when a fetch failed and either no
\* cache existed or the cache fallback failed as well, and the error shown
\* is the one of the fetch, not the one of the fallback.
C17_ErrorOnlyAfterFailedFallback ==
    [][(hook'.mounted /\ hook'.error # NULL /\ hook'.error # hook.error) =>
          LET load == hook'.loads[hook'.event.load]
          IN  /\ \/ hook'.event.kind = "noCacheFail" /\ ~load.exists
                 \/ hook'.event.kind = "fallbackFail" /\ load.exists
              /\ hook'.error = load.err
              /\ load.err \in FetchErrors]_vars

\* C17 amended: an error is shown only when the cache load of the
\* from-cache path failed, or when an incremental fetch failed and either no
\* cache existed or the cache fallback failed as well; in the first case
\* the error shown is the one of the cache load, in the second it is the one
\* of the fetch, not the one of the fallback.
C17_ErrorOnlyAfterFailedLoad ==
    [][(hook'.mounted /\ hook'.error # NULL /\ hook'.error # hook.error) =>
          LET load == hook'.loads[hook'.event.load]
          IN  /\ \/ hook'.event.kind = "cacheFail" /\ load.exists /\ ~load.force
                 \/ /\ hook'.event.kind = "noCacheFail" /\ ~load.exists
                    /\ load.err \in FetchErrors
                 \/ /\ hook'.event.kind = "fallbackFail" /\ load.exists
                    /\ load.err \in FetchErrors
              /\ hook'.error = load.err]_vars

\* The fallback of a rate limited load failed and the rate limit error is
\* the one shown.
C17_Witness ==
    /\ hook.mounted /\ hook.event.kind = "fallbackFail"
    /\ LastLoad.exists
    /\ hook.error = "GitHub API rate limit exceeded"
    /\ hook.error = LastLoad.err

\* The steps in which a call of loadCommits ends, its load resolved or failed.
SettleKinds ==
    {"cacheOk", "cacheFail", "incrementalOk", "noCacheFail", "fallbackOk",
     "fallbackFail"}

\* C18 as stated: once the repository key has changed or the component has
\* unmounted, a load started before that changes neither the commits nor
\* the fromCache flag nor the error shown when it resolves or fails.
C18_StaleLoadChangesNothing ==
    [][(/\ hook'.event.kind \in SettleKinds
        /\ \/ ~hook.mounted
           \/ hook.loads[hook'.event.load].epoch # hook.epoch) =>
          /\ hook'.commits = hook.commits
          /\ hook'.fromCache = hook.fromCache
          /\ hook'.error = hook.error]_vars

\* C19 as stated: for one repository key, a cache load (of the from-cache
\* path or of the fallback) and an incremental load are never in progress
\* at the same time; loads whose result is stale, started before the last
\* change of the key, are not counted.
C19_CacheAndIncrementalExclusive ==
    \A l1, l2 \in 1..Len(hook.loads) :
       ~ /\ IsCurrent(hook.loads[l1]) /\ IsCurrent(hook.loads[l2])
         /\ hook.loads[l1].key = hook.loads[l2].key
         /\ hook.loads[l1].pc \in {"cacheLoad", "fallback"}
         /\ hook.loads[l2].pc = "incremental"

\* ---------------------------------------------------------------- C20
\* The envelope a settled loadCommits read is valid: it exists, its version
\* is the current constant and it is at most 24 hours old at the check.
ValidRead(r) ==
    /\ r.data.present
    /\ r.data.version = CACHE_VERSION
    /\ r.at - r.data.lastUpdated <= CACHE_EXPIRY_MS

\* The stored payload as loadCommits hands it out: the commits of the
\* envelope, each date a Date.
StoredPayload(data) ==
    [i \in 1..Len(data.commits) |->
        CommitData(data.commits[i].hash,
                   StoredDate("Date", data.commits[i].date.ms))]

\* C20: loadCommits(repoKey) returns the stored payload only if the
\* version of the envelope equals CACHE_VERSION and Date.now() minus
\* lastUpdated is at most 24 hours; in every other case (no envelope,
\* version mismatch, older than 24 hours) it returns null.
C20_LoadReturnsOnlyValidEnvelope ==
    (idb.open /\ idb.result.op = "load") =>
        /\ idb.result.ok =>
              /\ ValidRead(idb.result)
              /\ idb.result.commits = StoredPayload(idb.result.data)
        /\ ~ValidRead(idb.result) => ~idb.result.ok

\* A load returned the payload of an envelope exactly 24 hours old.
C20_Witness ==
    /\ idb.open
    /\ idb.result.op = "load"
    /\ idb.result.ok
    /\ idb.result.commits # << >>
    /\ idb.result.at - idb.result.data.lastUpdated = CACHE_EXPIRY_MS

\* Loads that returned null: for a missing envelope, an old version, an
\* envelope older than 24 hours.
C20_WitnessAbsent ==
    idb.open /\ idb.result.op = "load" /\ ~idb.result.ok
    /\ ~idb.result.data.present
C20_WitnessVersion ==
    idb.open /\ idb.result.op = "load" /\ ~idb.result.ok
    /\ idb.result.data.present /\ idb.result.data.version # CACHE_VERSION
C20_WitnessExpired ==
    idb.open /\ idb.result.op = "load" /\ ~idb.result.ok
    /\ idb.result.data.present /\ idb.result.data.version = CACHE_VERSION
    /\ idb.result.at - idb.result.data.lastUpdated = CACHE_EXPIRY_MS + 1

\* ---------------------------------------------------------------- C21
\* A loadCommits made by a caller that held such a null for the same key
\* reads no record, unless one saved in between.
StaleIsGone ==
    (idb.open /\ idb.failed = 0 /\ idb.result.op = "load"
       /\ RejectedStale(idb.result.prior)
       /\ idb.result.prior.repoKey = idb.result.repoKey) =>
        \/ ~idb.result.data.present
        \/ /\ idb.result.data # idb.result.prior.data
           /\ idb.result.data.version = CACHE_VERSION
           /\ idb.result.data.commits \in SavedPayloads

\* The delete that a loadCommits started runs and succeeds.
StaleDeleteRuns ==
    /\ idb.open /\ idb.queue # << >>
    /\ Head(idb.queue).op = "delete" /\ Head(idb.queue).from = "load"
    /\ idb'.queue = Tail(idb.queue)
    /\ idb'.failed = idb.failed

\* C21: after loadCommits(key) has returned null because of a version
\* mismatch or expiry, the stale record is removed: a subsequent
\* loadCommits(key) finds no record for that key, and the delete leaves
\* the records of the other keys as they were.
C21_StaleEnvelopeRemoved ==
    [][ /\ StaleIsGone'
        /\ StaleDeleteRuns =>
              /\ ~idb'.store[Head(idb.queue).repoKey].present
              /\ \A k \in Keys \ {Head(idb.queue).repoKey} :
                    idb'.store[k] = idb.store[k] ]_vars

\* A second loadCommits of a key found nothing after the first returned
\* null for an old version, and the other key still has its record.
C21_Witness ==
    /\ idb.open /\ idb.failed = 0
    /\ idb.result.op = "load"
    /\ RejectedStale(idb.result.prior)
    /\ idb.result.prior.repoKey = idb.result.repoKey
    /\ idb.result.prior.data.version # CACHE_VERSION
    /\ ~idb.result.data.present
    /\ \E k \in Keys \ {idb.result.repoKey} : idb.store[k].present

\* ---------------------------------------------------------------- C22
\* The records as saveCommits was given them, each date a Date.
SavedRecords(data) ==
    [i \in 1..Len(data.commits) |->
        CommitData(data.commits[i].hash,
                   StoredDate("Date", data.commits[i].date.ms))]

\* The last settled call is a loadCommits whose caller had just saved the
\* same key successfully, and called with no other call of its own waiting.
LoadFollowsSave ==
    /\ idb.open /\ idb.failed = 0
    /\ idb.result.op = "load"
    /\ idb.result.prior.op = "save" /\ idb.result.prior.ok
    /\ idb.result.prior.repoKey = idb.result.repoKey
    /\ idb.result.behind \subseteq {"load"}
    /\ idb.result.at - idb.result.prior.data.lastUpdated <= CACHE_EXPIRY_MS

\* C22: saveCommits(key, records) followed by loadCommits(key) within the
\* expiry window returns the same records in the same order, each with a
\* date equal to the saved one and a Date again.
C22_SaveThenLoadRoundTrip ==
    LoadFollowsSave =>
        /\ idb.result.ok
        /\ idb.result.commits = SavedRecords(idb.result.prior.data)

\* ---------------------------------------------------------------- C23
\* The put of a saveCommits runs and its request succeeds.
SaveSucceeds ==
    /\ idb.open /\ idb.queue # << >>
    /\ Head(idb.queue).op = "put"
    /\ idb'.queue = Tail(idb.queue)
    /\ idb'.failed = idb.failed

\* C23: after a successful saveCommits(key, records) the store holds one
\* record for that key, its commits are exactly records and its other
\* fields those saveCommits built (nothing of an earlier record of the key
\* survives), and the records of all other keys are unchanged.
C23_SaveReplacesEnvelope ==
    [][ SaveSucceeds =>
          LET saved == Head(idb.queue).data
          IN  /\ idb'.result.op = "save" /\ idb'.result.ok
              /\ idb'.store[saved.repoKey] = saved
              /\ idb'.store[saved.repoKey].commits \in SavedPayloads
              /\ idb'.store[saved.repoKey].version = CACHE_VERSION
              /\ \A k \in Keys \ {saved.repoKey} :
                    idb'.store[k] = idb.store[k] ]_vars

\* A save has replaced the record an earlier release left for key B,
\* after the clock moved, while key A kept its record.
C23_Witness ==
    /\ idb.open
    /\ idb.result.op = "save" /\ idb.result.ok
    /\ idb.result.repoKey = "B"
    /\ idb.store["B"] = idb.result.data
    /\ idb.store["B"].lastUpdated > 0
    /\ idb.store["A"].present /\ idb.store["A"].commits = LegacyPayload

\* ---------------------------------------------------------------- C24
\* The put of a saveCommits fails with QuotaExceededError.
SaveExceedsQuota ==
    /\ idb.open /\ idb.queue # << >>
    /\ Head(idb.queue).op = "put"
    /\ idb'.failed = idb.failed + 1
    /\ idb'.result.error = QuotaExceededError

\* C24: when a save fails because the storage quota is exhausted, exactly
\* one record, the one with the smallest lastUpdated, is evicted, the write
\* is not retried within that call, and the call reports failure (it
\* resolves false) to its caller.
C24_QuotaEvictsOldest ==
    [][ SaveExceedsQuota =>
          /\ idb'.result.op = "save"
          /\ idb'.result.outcome = "resolved" /\ ~idb'.result.ok
          /\ \/ idb'.store = ClearOldestCache(idb.store)
             \/ /\ idb'.store = idb.store
                /\ \E i \in 1..Len(idb'.queue) : idb'.queue[i].op = "evict"
          /\ \A i \in 1..Len(idb'.queue) :
                idb'.queue[i].op = "put" =>
                    \E j \in 2..Len(idb.queue) : idb.queue[j] = idb'.queue[i]
      ]_vars

\* ---------------------------------------------------------------- C25
\* C25: clearCache(key) and clearAllCaches() never throw or reject,
\* whatever storage failure occurs (the database cannot be opened, or the
\* delete/clear request itself fails); the failure is only logged.
C25_ClearNeverRejects ==
    (idb.open /\ idb.result.op \in {"clear", "clearAll"}) =>
        idb.result.outcome = "resolved"

\* ---------------------------------------------------------------- C26
\* C26: saveCommits and loadCommits never throw or reject: when the
\* database cannot be opened or the put/get request fails, saveCommits
\* resolves to false and loadCommits resolves to null.
C26_SaveAndLoadNeverReject ==
    (idb.open /\ idb.result.op \in {"save", "load"}) =>
        /\ idb.result.outcome = "resolved"
        /\ idb.result.error # NULL => ~idb.result.ok

\* ---------------------------------------------------------------- C27
\* C27: getCacheInfo(key) reports the record as existing only when
\* loadCommits(key) would return it, that is when its version is current
\* and its age is at most 24 hours; a record with a wrong version or an
\* expired one is reported as absent.
C27_InfoExistsOnlyIfLoadable ==
    (idb.open /\ idb.result.op = "info" /\ idb.result.ok) =>
        /\ idb.result.data.present
        /\ idb.result.data.version = CACHE_VERSION
        /\ idb.result.at - idb.result.data.lastUpdated <= CACHE_EXPIRY_MS

\* ---------------------------------------------------------------- C28
\* The size getFileData reports for a path; 0 for a path not tracked.
TrackedSize(map, path) ==
    LET data == GetFileData(map)
    IN  IF \E i \in 1..Len(data) : data[i].path = path
        THEN data[CHOOSE i \in 1..Len(data) : data[i].path = path].size
        ELSE 0

InSnapshot(map, path) ==
    \E i \in 1..Len(GetFileData(map)) : GetFileData(map)[i].path = path

\* The Map before and after the n-th diff of the last updateFromPRFiles.
BeforeDiff(n) == UpdatedFrom(fileState.before, fileState.files, n - 1)
AfterDiff(n) == UpdatedFrom(fileState.before, fileState.files, n)

\* C28: for every sequence of added and modified diffs, after each diff the
\* tracked size of the diff's path equals max(0, size before the diff +
\* additions - deletions), where a path not yet tracked counts as size 0.
C28_SizeFlooredAtEachDiff ==
    fileState.tracking =>
        \A n \in 1..Len(fileState.files) :
            LET file == fileState.files[n]
            IN  file.status \in {"added", "modified"} =>
                    TrackedSize(AfterDiff(n), file.filename)
                      = Max(0, TrackedSize(BeforeDiff(n), file.filename)
                                 + file.additions - file.deletions)

\* ---------------------------------------------------------------- C29
\* C29: after a renamed diff the previous filename is no longer in the
\* snapshot and the new filename has the size accumulated under the
\* previous filename plus the diff's additions minus its deletions.
C29_RenameMovesSize ==
    fileState.tracking =>
        \A n \in 1..Len(fileState.files) :
            LET file == fileState.files[n]
            IN  file.status = "renamed" =>
                    /\ ~InSnapshot(AfterDiff(n), file.previous_filename)
                    /\ TrackedSize(AfterDiff(n), file.filename)
                         = TrackedSize(BeforeDiff(n), file.previous_filename)
                             + file.additions - file.deletions

\* ---------------------------------------------------------------- C30
\* The immediate containing directory of a path, read off its characters:
\* what precedes its last separator; the virtual root when it has none.
ContainingDirectory(path) ==
    IF \E i \in 1..Len(path) : path[i] = Slash
    THEN LET last == CHOOSE i \in 1..Len(path) :
                        /\ path[i] = Slash
                        /\ \A j \in (i + 1)..Len(path) : path[j] # Slash
         IN  SubSeq(path, 1, last - 1)
    ELSE VirtualRoot

ParentEdges(node) ==
    {i \in 1..Len(snapshot.edges) : snapshot.edges[i].target = node}

PathPrefixes(files) ==
    UNION { { SubSeq(files[i].path, 1, k - 1) :
                k \in {j \in 1..Len(files[i].path) : files[i].path[j] = Slash} } :
            i \in 1..Len(files) }

\* The positions of a path among the directory nodes of the snapshot.
DirectoryNodesAt(dir) ==
    {i \in 1..Len(snapshot.directories) : snapshot.directories[i] = dir}

\* The edges of the snapshot as a set of source-target pairs.
EdgePairs ==
    { << snapshot.edges[i].source, snapshot.edges[i].target >> :
        i \in 1..Len(snapshot.edges) }

\* The chain of parent edges of one path: virtual root to its first
\* directory, each directory to the next, the last directory to the file.
ChainOf(path) ==
    { << ContainingDirectory(node), node >> :
        node \in PathPrefixes(<< [path |-> path] >>) \cup {path} }

C31_WitnessShared ==
    /\ snapshot.built
    /\ Len(snapshot.files) = 3
    /\ Len(snapshot.directories) = 3

\* ---------------------------------------------------------------- C32
\* The entry of the pool at position k mod n, counting from 0.
PoolEntry(k) ==
    tokenRotator.tokens[(k % Len(tokenRotator.tokens)) + 1]

\* C32: for a rotator built from a pool of n >= 1 credentials, the k-th
\* call of getNextToken, counting from 0, returns the pool entry k mod n,
\* which is a member of the pool.
C32_NextReturnsEntryKModN ==
    (tokenRotator.built /\ tokenRotator.calls > 0) =>
        /\ Len(tokenRotator.tokens) >= 1
        /\ tokenRotator.token = PoolEntry(tokenRotator.calls - 1)
        /\ \E i \in 1..Len(tokenRotator.tokens) :
              tokenRotator.token = tokenRotator.tokens[i]

\* The third call on a pool of two distinct credentials has wrapped around
\* to the first.
C32_Witness ==
    /\ tokenRotator.built
    /\ Len(tokenRotator.tokens) = 2
    /\ tokenRotator.tokens[1] # tokenRotator.tokens[2]
    /\ tokenRotator.calls = 3
    /\ tokenRotator.token = tokenRotator.tokens[1]

\* ---------------------------------------------------------------- C33
\* The requests that have started a sync cycle.
Cycles == {r \in Reqs : req[r].kind # "none"}

\* C33: successive sync cycles use successive credentials of the pool, so
\* as long as no more cycles have started than the pool has credentials,
\* no two cycles have used the same credential.
C33_CyclesRoundRobin ==
    Cardinality(Cycles) <= Len(Tokens) =>
        \A r1 \in Cycles, r2 \in Cycles :
            r1 # r2 => req[r1].token # req[r2].token

\* ---------------------------------------------------------------- C34
\* A list of change records is in ascending order of merge time.
ByMergeTime(body) ==
    \A i \in 1..Len(body), j \in 1..Len(body) :
        i < j => body[i].merged_at <= body[j].merged_at

\* C34: every change list the edge service returns with status 200, on a
\* cache miss as well as on a cache hit, is in ascending order of merge
\* time.
C34_ReturnedListByMergeTime ==
    \A r \in Reqs :
        req[r].resp.status = 200 => ByMergeTime(req[r].resp.body)

\* ---------------------------------------------------------------- C35
\* The HEAD response carried no Link header, or one without rel="last".
NoLastPage == oc.link.kind \in {"none", "nolast"}

\* The number of commits on page 1 of the branch.
OnFirstPage == Min(oc.T, PerPage)

\* The GET requests of the call.
PageGets == {i \in 1..Len(oc.reqs) : oc.reqs[i].method = "GET"}

\* C35: when the HEAD response carries no Link header, or a Link header
\* without a last page, a call that returns has fetched page 1 once and
\* nothing else, and returns the commits of page 1 oldest first, cut to
\* maxCommitsToReturn.
C35_NoLastLinkMeansSinglePage ==
    (oc.pc = "done" /\ NoLastPage) =>
        /\ Cardinality(PageGets) = 1
        /\ \A i \in PageGets : oc.reqs[i] = Request("GET", PerPage, 1)
        /\ Len(oc.result) = Min(oc.limit, OnFirstPage)
        /\ \A i \in 1..Len(oc.result) :
              oc.result[i] = oc.T - OnFirstPage + i

\* A branch of more than one page whose Link header has no last page: the
\* 50 oldest commits of page 1 are returned.
C35_Witness ==
    /\ oc.pc = "done"
    /\ oc.link.kind = "nolast"
    /\ oc.T > PerPage
    /\ oc.limit = 50
    /\ Len(oc.result) = 50
    /\ oc.result[1] = oc.T - PerPage + 1

\* A branch of one page answered without a Link header.
C35_WitnessNoHeader ==
    /\ oc.pc = "done"
    /\ oc.link.kind = "none"
    /\ oc.T = 3
    /\ oc.result = << 1, 2, 3 >>

\* ---------------------------------------------------------------- C36
\* Pull request n was merged upstream before the instant ms.
MergedBefore(n, ms) ==
    /\ upstream[n].state = "merged"
    /\ upstream[n].merged_at < NowSec(ms)

\* C36: after a background sync has completed successfully, every pull
\* request merged upstream before the sync started is in the store,
\* whatever its number.
C36_SyncStoresEveryMergedChange ==
    \A r \in Reqs :
        (req[r].kind = "update" /\ req[r].outcome = "completed") =>
            \A n \in PRNums :
                MergedBefore(n, req[r].startMs) =>
                    n \in DOMAIN req[r].after.prs

\* ---------------------------------------------------------------- C37
\* The last settled call is a loadCommits whose caller had just saved the
\* same key successfully, having made that save while it held the null of
\* a rejected read of the key and only deletes were waiting.
LoadFollowsSaveAfterStale ==
    /\ idb.open
    /\ idb.result.op = "load" /\ idb.result.error = NULL
    /\ idb.result.prior.op = "save" /\ idb.result.prior.ok
    /\ idb.result.prior.afterStale
    /\ idb.result.prior.repoKey = idb.result.repoKey
    /\ idb.result.behind \subseteq {"load"}
    /\ idb.result.at - idb.result.prior.data.lastUpdated <= CACHE_EXPIRY_MS

\* C37: a saveCommits(key, records) made after a loadCommits(key) returned
\* null for a stale record is not undone by the clearCache of that load:
\* once the save has succeeded, the next loadCommits(key) returns the
\* saved records.
C37_SaveAfterStaleLoadSurvives ==
    LoadFollowsSaveAfterStale =>
        /\ idb.result.ok
        /\ idb.result.commits = SavedRecords(idb.result.prior.data)
        /\ idb.store[idb.result.repoKey] = idb.result.prior.data

\* The clearCache of the rejected read was still waiting when the save was
\* made, and the load after the save returned the saved records.
C37_Witness ==
    /\ LoadFollowsSaveAfterStale
    /\ idb.result.prior.racing
    /\ idb.result.ok
    /\ idb.result.commits \in SavedPayloads

\* ---------------------------------------------------------------- C38
\* The last step ended a call of loadCommits whose fetch did not fail, for
\* the repository shown, and no other call is still running.
LoadEndedWithoutFetchError ==
    /\ hook.mounted
    /\ hook.event.kind \in {"cacheOk", "incrementalOk"}
    /\ IsCurrent(hook.loads[hook.event.load])
    /\ \A l \in 1..Len(hook.loads) : hook.loads[l].pc = "done"

\* C38: whenever a call of loadCommits completes without a fetch error,
\* the component is ready (not loading, no background load) and shows no
\* error, whatever the previous load ended in, so also when the call is
\* the loadCommits(true) of a retry after an error.
C38_LoadWithoutErrorEndsReady ==
    LoadEndedWithoutFetchError =>
        /\ ~hook.loading /\ ~hook.backgroundLoading
        /\ hook.error = NULL

\* ---------------------------------------------------------------- C39
\* C39: one call of fetchMergedPRs of api/github.ts with the default
\* arguments (no sinceNumber, maxPages = 10) sends at most 50 requests
\* upstream, list pages and files requests counted together.
C39_AtMostFiftyRequests ==
    (fm.variant = "api" /\ fm.since = 0 /\ fm.maxPages = DefaultMaxPages) =>
        Len(fm.listed) + Len(fm.allPRs) <= SubrequestLimit

\* ---------------------------------------------------------------- C40
\* The end of the range the playback runs towards.
PlaybackBoundary ==
    IF playback.playbackDirection = "forward"
    THEN playback.timeRange.end
    ELSE playback.timeRange.start

StoppedAtBoundary ==
    /\ playback.mounted
    /\ ~playback.isPlaying
    /\ playback.currentTime = PlaybackBoundary

\* C40: playing on a list of at least one commit, the timer reaches the
\* end of the range (forward) or its start (reverse) after finitely many
\* ticks and sets playing to false there, for every date-sorted list of
\* commits, equal dates included, and every playback speed.
C40_PlaybackReachesBoundaryAndStops ==
    (playback.mounted /\ playback.isPlaying) ~> StoppedAtBoundary

====
